---- MODULE Spec2Model ----
(***************************************************************************)
(* Model of the background service worker of the Flex Portal extension     *)
(* (src/background.js): the notification registry, the task scheduler and  *)
(* the three chrome.runtime.onMessage listeners.                           *)
(*                                                                         *)
(* One JavaScript turn (a listener call, a callback, a promise             *)
(* continuation) is one atomic action.  Platform calls take effect when    *)
(* they are issued and answer through a FIFO queue per chrome API; the     *)
(* worker handles one queued answer or one event per turn.  Promise        *)
(* continuations that are already resolved (microtasks) run before any     *)
(* other turn.                                                             *)
(***************************************************************************)
EXTENDS Integers, Sequences, FiniteSets, TLC

\* ------------------------------------------------------------------ bounds
MaxRequests == 3
MaxRouterRequests == 2
MaxSchedRequests == 1
MaxFirings == 1
MaxTime == 1
MaxUserEvents == 2
MaxEventRequests == 2

\* ------------------------------------------------ program constants
DefaultSyncInterval == 300000
DefaultStatusCheckInterval == 600000
DailyCleanupInterval == 86400000
DefaultMaxAge == 604800000

\* -------------------------------------------------------------- values
NoTime == 0 - 1
NoId == "none"
EmptyBag == [k \in {} |-> ""]

\* {...a, ...b}: the keys of b override the keys of a
Merge(a, b) ==
  [k \in (DOMAIN a) \cup (DOMAIN b) |-> IF k \in DOMAIN b THEN b[k] ELSE a[k]]

Lookup(bag, k, dflt) == IF k \in DOMAIN bag THEN bag[k] ELSE dflt

Restrict(f, S) == [k \in (DOMAIN f) \cap S |-> f[k]]

Without(f, S) == [k \in (DOMAIN f) \ S |-> f[k]]

\* JSON values kept in chrome.storage.local
Obj(bag) == [t |-> "obj", s |-> "", n |-> 0, o |-> bag]
Str(x) == [t |-> "str", s |-> x, n |-> 0, o |-> EmptyBag]
Null == [t |-> "null", s |-> "", n |-> 0, o |-> EmptyBag]
Bool(b) == [t |-> "bool", s |-> IF b THEN "true" ELSE "false", n |-> 0, o |-> EmptyBag]
Num(x) == [t |-> "num", s |-> "", n |-> x, o |-> EmptyBag]

Channels == {"notifications", "storage", "tabs", "runtime", "network"}

\* a message from the platform to the worker: the answer to the call cid,
\* or an event
Msg(kind, cid, ok, id, val) ==
  [kind |-> kind, cid |-> cid, ok |-> ok, id |-> id, val |-> val]

\* an activation of an asynchronous function that is suspended or settled;
\* log is the console line it ended with ("warn", "error") once it has one
Call(fn, pc, req, id) ==
  [fn |-> fn, pc |-> pc, req |-> req, id |-> id, opts |-> EmptyBag,
   action |-> "none", interval |-> 0, createdAt |-> NoTime, idx |-> 0,
   log |-> "none"]

\* an inbound request {action, id?, options?, task?, data?}; null models a
\* request body that is null or undefined
NoTask == [present |-> FALSE, id |-> NoId, action |-> "none", interval |-> 0,
           data |-> EmptyBag]
Task(id, action, interval, data) ==
  [present |-> TRUE, id |-> id, action |-> action, interval |-> interval,
   data |-> data]
NoData == [present |-> FALSE, bag |-> EmptyBag]
Data(bag) == [present |-> TRUE, bag |-> bag]
Request(action, id, options, task, data) ==
  [null |-> FALSE, action |-> action, id |-> id, options |-> options,
   task |-> task, data |-> data]
NullRequest == [Request("none", NoId, EmptyBag, NoTask, NoData) EXCEPT !.null = TRUE]

\* one call of sendResponse: by which listener's code, with which success
\* field ("yes", "no", or "na" when the reply has none), and whether it was
\* made before that listener returned
ReplyRec(by, success, error, sync) ==
  [by |-> by, success |-> success, error |-> error, sync |-> sync,
   notifications |-> <<>>]

VARIABLES
  requests,            \* inbound requests: what each listener returned, the sendResponse calls
  calls,               \* suspended activations, by call id
  inbox,               \* per chrome API: answers and events not yet handled
  activeNotifications, \* the Map of line 15, in insertion order
  platformNotifs,      \* ids of the notifications the platform shows
  scheduledTasks,      \* the Map of line 253
  timers,              \* live setInterval timers
  firings,
  storage,             \* chrome.storage.local
  tabs,                \* open tabs: tab id -> has a receiver
  offscreenCreated,
  offscreenDoc,        \* the platform has an offscreen document
  now,
  userEvents,
  startupFired,
  uncaught,            \* exceptions that escaped a callback or a listener
  cancelled,           \* history: ids cancelled and not scheduled again since
  lastEvent,           \* history: the last notification event a listener handled
  installEvent,        \* history: the onInstalled event handled, the writes of the defaults
  retry                \* one call of retryWithBackoff: its position and what it has done

vars == <<requests, calls, inbox, activeNotifications, platformNotifs,
          scheduledTasks, timers, firings, storage, tabs,
          offscreenCreated, offscreenDoc, now, userEvents, startupFired, uncaught, cancelled,
          lastEvent, installEvent, retry>>

\* the whole state as one value, so that the code of one turn composes
World ==
  [requests |-> requests, calls |-> calls, inbox |-> inbox,
   activeNotifications |-> activeNotifications, platformNotifs |-> platformNotifs,
   scheduledTasks |-> scheduledTasks, timers |-> timers,
   firings |-> firings, storage |-> storage, tabs |-> tabs,
   offscreenCreated |-> offscreenCreated, offscreenDoc |-> offscreenDoc,
   now |-> now, userEvents |-> userEvents, startupFired |-> startupFired,
   uncaught |-> uncaught, cancelled |-> cancelled,
   lastEvent |-> lastEvent, installEvent |-> installEvent, retry |-> retry]

Becomes(W) ==
  /\ requests' = W.requests
  /\ calls' = W.calls
  /\ inbox' = W.inbox
  /\ activeNotifications' = W.activeNotifications
  /\ platformNotifs' = W.platformNotifs
  /\ scheduledTasks' = W.scheduledTasks
  /\ timers' = W.timers
  /\ firings' = W.firings
  /\ storage' = W.storage
  /\ tabs' = W.tabs
  /\ offscreenCreated' = W.offscreenCreated
  /\ offscreenDoc' = W.offscreenDoc
  /\ now' = W.now
  /\ userEvents' = W.userEvents
  /\ startupFired' = W.startupFired
  /\ uncaught' = W.uncaught
  /\ cancelled' = W.cancelled
  /\ lastEvent' = W.lastEvent
  /\ installEvent' = W.installEvent
  /\ retry' = W.retry

\* ------------------------------------------------------- plumbing
\* the identity of a new activation, and the handle setInterval returns: the
\* least number no live activation, no live timer has
FreeCid(W) ==
  CHOOSE n \in 1..(Cardinality(DOMAIN W.calls) + 1) :
    /\ n \notin DOMAIN W.calls
    /\ \A m \in 1..(n - 1) : m \in DOMAIN W.calls

FreeHandle(W) ==
  CHOOSE n \in 1..(Cardinality(W.timers) + 1) :
    /\ \A t \in W.timers : t.handle # n
    /\ \A m \in 1..(n - 1) : \E t \in W.timers : t.handle = m

\* issue a platform call on behalf of a new activation: the activation gets
\* the next call id and the platform's answer is queued
Suspend(W, chan, call, ok, val) ==
  [W EXCEPT !.calls = [c \in (DOMAIN W.calls) \cup {FreeCid(W)} |->
                          IF c = FreeCid(W) THEN call ELSE W.calls[c]],
            !.inbox[chan] = Append(@, Msg("reply", FreeCid(W), ok, call.id, val))]

\* a new activation that is already settled or has a microtask pending
Spawn(W, call) ==
  [W EXCEPT !.calls = [c \in (DOMAIN W.calls) \cup {FreeCid(W)} |->
                          IF c = FreeCid(W) THEN call ELSE W.calls[c]]]

\* the activation cid issues its next platform call
Await(W, cid, chan, pc, ok, val) ==
  [W EXCEPT !.calls[cid].pc = pc,
            !.inbox[chan] = Append(@, Msg("reply", cid, ok, W.calls[cid].id, val))]

SetPc(W, cid, pc) == [W EXCEPT !.calls[cid].pc = pc]

\* the try block ran through (console.log) or the catch block ran (console.error)
Logged(W, cid, ok) == [W EXCEPT !.calls[cid].log = IF ok THEN "log" ELSE "error"]

Drop(W, cid) == [W EXCEPT !.calls = [c \in (DOMAIN W.calls) \ {cid} |-> W.calls[c]]]

\* the promise of the activation settles: a request's .then/.catch runs as
\* a microtask, an activation nobody waits for is gone
Settle(W, cid, pc) ==
  IF W.calls[cid].req = 0 THEN Drop(W, cid) ELSE SetPc(W, cid, pc)

sendResponse(W, r, by, success, error, sync) ==
  [W EXCEPT !.requests[r].replies = Append(@, ReplyRec(by, success, error, sync))]

\* ------------------------------------------------ the Map of line 15
Has(map, id) == \E i \in 1..Len(map) : map[i].id = id

IndexOf(map, id) == CHOOSE i \in 1..Len(map) : map[i].id = id

Get(map, id) == map[IndexOf(map, id)]

Entry(id, createdAt, updatedAt, options) ==
  [id |-> id, createdAt |-> createdAt, updatedAt |-> updatedAt, options |-> options]

\* Map.prototype.set: an existing key keeps its place
MapSet(map, e) ==
  IF Has(map, e.id) THEN [map EXCEPT ![IndexOf(map, e.id)] = e] ELSE Append(map, e)

MapDelete(map, id) ==
  IF Has(map, id)
  THEN SubSeq(map, 1, IndexOf(map, id) - 1) \o SubSeq(map, IndexOf(map, id) + 1, Len(map))
  ELSE map

Ids(map) == {map[i].id : i \in 1..Len(map)}

\* activeNotifications.delete(id): the live iterators of the
\* clearAllNotifications activations move with the entries behind them
registryDelete(W, id) ==
  IF ~Has(W.activeNotifications, id) THEN W
  ELSE LET p == IndexOf(W.activeNotifications, id) IN
       [W EXCEPT !.activeNotifications = MapDelete(@, id),
                 !.calls = [c \in DOMAIN W.calls |->
                              IF W.calls[c].fn = "clearAll" /\ W.calls[c].idx >= p
                              THEN [W.calls[c] EXCEPT !.idx = @ - 1]
                              ELSE W.calls[c]]]

registryClear(W) ==
  [W EXCEPT !.activeNotifications = <<>>,
            !.calls = [c \in DOMAIN W.calls |->
                         IF W.calls[c].fn = "clearAll"
                         THEN [W.calls[c] EXCEPT !.idx = 0]
                         ELSE W.calls[c]]]

\* ------------------------------------------------ notification handling
DefaultOptions ==
  [k \in {"icon", "badge", "requireInteraction"} |->
     IF k = "icon" THEN "icons/icon-48x48.png"
     ELSE IF k = "badge" THEN "icons/icon-badge-32x32.png"
     ELSE "false"]

\* a showNotification whose defaults override the options of the caller
showNotificationStart_DefaultsWin(W, r, id, options, ok) ==
  LET c == [Call("show", "awaitCreate", r, id) EXCEPT !.opts = Merge(options, DefaultOptions)]
      W1 == [W EXCEPT !.platformNotifs = IF ok THEN @ \cup {id} ELSE @]
  IN Suspend(W1, "notifications", c, ok, EmptyBag)

\* showNotification up to its await: chrome.notifications.create is issued;
\* ok is whether the platform creates the notification
showNotificationStart(W, r, id, options, ok) ==
  LET c == [Call("show", "awaitCreate", r, id) EXCEPT !.opts = Merge(DefaultOptions, options)]
      W1 == [W EXCEPT !.platformNotifs = IF ok THEN @ \cup {id} ELSE @]
  IN Suspend(W1, "notifications", c, ok, EmptyBag)

\* a showNotification that stores its record whatever create answered
showNotificationSettled_Unchecked(map, id, opts, ok, t) ==
  MapSet(map, Entry(id, t, NoTime, opts))

\* what showNotification leaves in the registry once create has settled
showNotificationSettled(map, id, opts, ok, t) ==
  IF ok THEN MapSet(map, Entry(id, t, NoTime, opts)) ELSE map

showNotificationResume(W, cid, ok) ==
  LET c == W.calls[cid]
      W1 == [W EXCEPT !.activeNotifications =
                        showNotificationSettled(@, c.id, c.opts, ok, W.now)]
  IN Settle(Logged(W1, cid, ok), cid, "resolved")

\* an updateNotification without the test of line 59
updateNotificationStart_NoTest(W, r, id, options, ok) ==
  LET cur == IF Has(W.activeNotifications, id)
             THEN Get(W.activeNotifications, id)
             ELSE Entry(id, NoTime, NoTime, EmptyBag)
      c == [Call("update", "awaitUpdate", r, id) EXCEPT
              !.opts = Merge(cur.options, options),
              !.createdAt = cur.createdAt]
  IN Suspend(W, "notifications", c, ok, EmptyBag)

\* updateNotification up to its await, or to its early return
updateNotificationStart(W, r, id, options, ok) ==
  IF ~Has(W.activeNotifications, id)
  THEN Spawn(W, [Call("update", "resolved", r, id) EXCEPT !.log = "warn"])
  ELSE LET cur == Get(W.activeNotifications, id)
           c == [Call("update", "awaitUpdate", r, id) EXCEPT
                   !.opts = Merge(cur.options, options),
                   !.createdAt = cur.createdAt]
       IN Suspend(W, "notifications", c, ok, EmptyBag)

\* an updateNotification that stamps the record as created anew
updateNotificationSettled_Recreated(map, id, createdAt, opts, ok, t) ==
  IF ok THEN MapSet(map, Entry(id, t, t, opts)) ELSE map

\* what updateNotification leaves in the registry once update has settled
updateNotificationSettled(map, id, createdAt, opts, ok, t) ==
  IF ok THEN MapSet(map, Entry(id, createdAt, t, opts)) ELSE map

updateNotificationResume(W, cid, ok) ==
  LET c == W.calls[cid]
      W1 == [W EXCEPT !.activeNotifications =
                        updateNotificationSettled(@, c.id, c.createdAt, c.opts, ok, W.now)]
  IN Settle(Logged(W1, cid, ok), cid, "resolved")

\* clearNotification up to its await: chrome.notifications.clear is issued
clearNotificationStart(W, r, id, ok) ==
  LET W1 == [W EXCEPT !.platformNotifs = IF ok THEN @ \ {id} ELSE @]
  IN Suspend(W1, "notifications", Call("clear", "awaitClear", r, id), ok, EmptyBag)

\* a clearNotification that empties the registry instead of deleting its id
clearNotificationResume_ClearsAll(W, cid, ok) ==
  Settle(Logged(IF ok THEN registryClear(W) ELSE W, cid, ok), cid, "resolved")

clearNotificationResume(W, cid, ok) ==
  Settle(Logged(IF ok THEN registryDelete(W, W.calls[cid].id) ELSE W, cid, ok),
         cid, "resolved")

\* one step of the loop of clearAllNotifications: the iterator of
\* activeNotifications.keys() is asked for its next key
clearAllNext(W, cid, ok) ==
  LET c == W.calls[cid] IN
  IF c.idx < Len(W.activeNotifications)
  THEN LET id == W.activeNotifications[c.idx + 1].id
           W1 == [W EXCEPT !.platformNotifs = IF ok THEN @ \ {id} ELSE @,
                           !.calls[cid].idx = c.idx + 1,
                           !.calls[cid].id = id]
       IN Await(W1, cid, "notifications", "awaitClearAll", ok, EmptyBag)
  ELSE Settle(Logged(registryClear(W), cid, TRUE), cid, "resolved")

clearAllNotificationsStart(W, r, ok) ==
  clearAllNext(Spawn(W, Call("clearAll", "start", r, NoId)), FreeCid(W), ok)

\* the answer to one clear of the loop; ok2 is the outcome of the next clear
clearAllNotificationsResume(W, cid, ok, ok2) ==
  IF ok THEN clearAllNext(W, cid, ok2) ELSE Settle(Logged(W, cid, FALSE), cid, "resolved")

\* ------------------------------------------------ broadcast to all tabs
\* chrome.tabs.query({}, callback) of a fan-out; the message name rides in id
broadcastStart(W, msg) ==
  Suspend(W, "tabs", Call("broadcast", "query", 0, msg), TRUE, EmptyBag)

\* a fan-out that gives up at the first tab without a receiver
RECURSIVE sendToTabs_StopsAtFailure(_, _, _)
sendToTabs_StopsAtFailure(W, i, msg) ==
  IF i > Len(W.tabs) THEN W
  ELSE LET W1 == Suspend(W, "tabs", [Call("send", "sent", 0, msg) EXCEPT !.idx = i],
                         W.tabs[i], EmptyBag)
       IN IF W.tabs[i] THEN sendToTabs_StopsAtFailure(W1, i + 1, msg) ELSE W1

\* tabs.forEach(tab => chrome.tabs.sendMessage(tab.id, ...).catch(...))
RECURSIVE sendToTabs(_, _, _)
sendToTabs(W, i, msg) ==
  IF i > Len(W.tabs) THEN W
  ELSE sendToTabs(Suspend(W, "tabs", [Call("send", "sent", 0, msg) EXCEPT !.idx = i],
                          W.tabs[i], EmptyBag),
                  i + 1, msg)

broadcastCallback(W, cid) == Drop(sendToTabs(W, 1, W.calls[cid].id), cid)

\* a delivery that is attempted a second time when it has settled
sendSettled_RetriesOnce(W, cid) ==
  IF W.calls[cid].log = "none"
  THEN Await([W EXCEPT !.calls[cid].log = "retry"], cid, "tabs", "sent", TRUE, EmptyBag)
  ELSE Drop(W, cid)

\* the promise of one chrome.tabs.sendMessage settles: a rejection is
\* swallowed by its .catch
sendSettled(W, cid) == Drop(W, cid)

\* an onClosed listener that also fans the close out to the tabs
onClosed_Broadcasts(W, id) ==
  broadcastStart(
    registryDelete([W EXCEPT !.lastEvent = [kind |-> "closed", id |-> id]], id),
    "NOTIFICATION_ACTION")

\* chrome.notifications.onClosed listener
onClosed(W, id) ==
  registryDelete([W EXCEPT !.lastEvent = [kind |-> "closed", id |-> id]], id)

\* handleNotificationAction: the fan-out of NOTIFICATION_ACTION
handleNotificationAction(W) == broadcastStart(W, "NOTIFICATION_ACTION")

\* notification && notification.options.clickAction
hasClickAction(map, id) ==
  Has(map, id) /\ Lookup(Get(map, id).options, "clickAction", "") # ""

\* chrome.notifications.onClicked listener; ok is the outcome of the
\* platform clear it issues
onClicked(W, id, ok) ==
  LET W0 == [W EXCEPT !.lastEvent = [kind |-> "clicked", id |-> id]]
      W1 == IF hasClickAction(W.activeNotifications, id)
            THEN handleNotificationAction(W0) ELSE W0
  IN clearNotificationStart(W1, 0, id, ok)

\* ------------------------------------------------ background tasks
TimerRec(handle, c) ==
  [handle |-> handle, id |-> c.id, action |-> c.action, data |-> c.opts,
   interval |-> c.interval]

TaskRec(c, handle) ==
  [action |-> c.action, interval |-> c.interval, data |-> c.opts, intervalId |-> handle]

clearInterval(W, handle) ==
  [W EXCEPT !.timers = {t \in @ : t.handle # handle}]

\* lines 269-272: a task already recorded for the id loses its timer and its record
cancelPrevious(W, id) ==
  IF id \in DOMAIN W.scheduledTasks
  THEN [clearInterval(W, W.scheduledTasks[id].intervalId) EXCEPT
          !.scheduledTasks = Without(@, {id})]
  ELSE W

\* the promise of executeTask settles: scheduleBackgroundTask goes on in a
\* microtask, a timer firing is over
executed(W, cid) ==
  IF W.calls[cid].fn = "schedule" THEN SetPc(W, cid, "executed") ELSE Drop(W, cid)

\* a performBackgroundTask whose default branch syncs
performBackgroundTask_DefaultSyncs(W, c) ==
  CASE c.action = "CHECK_STATUS" ->
         broadcastStart(executed(Spawn(W, c), FreeCid(W)), "CHECK_STATUS")
    [] c.action = "CLEANUP_CACHE" ->
         Suspend(W, "storage", [c EXCEPT !.pc = "cleanupGet"], TRUE, W.storage)
    [] c.action = "REFRESH_TOKEN" ->
         Suspend(W, "storage", [c EXCEPT !.pc = "refreshGet"], TRUE,
                 Restrict(W.storage, {"authToken"}))
    [] OTHER ->
         Suspend(W, "storage", [c EXCEPT !.pc = "syncGet"], TRUE,
                 Restrict(W.storage, {"flexPortalData"}))

\* performBackgroundTask up to the first callback it waits for
performBackgroundTask(W, c) ==
  CASE c.action = "SYNC_DATA" ->
         Suspend(W, "storage", [c EXCEPT !.pc = "syncGet"], TRUE,
                 Restrict(W.storage, {"flexPortalData"}))
    [] c.action = "CHECK_STATUS" ->
         broadcastStart(executed(Spawn(W, c), FreeCid(W)), "CHECK_STATUS")
    [] c.action = "CLEANUP_CACHE" ->
         Suspend(W, "storage", [c EXCEPT !.pc = "cleanupGet"], TRUE, W.storage)
    [] c.action = "REFRESH_TOKEN" ->
         Suspend(W, "storage", [c EXCEPT !.pc = "refreshGet"], TRUE,
                 Restrict(W.storage, {"authToken"}))
    [] OTHER -> executed(Spawn(W, c), FreeCid(W))

\* scheduleBackgroundTask up to `await executeTask()`
scheduleBackgroundTaskStart(W, r, task) ==
  IF ~task.present
  THEN Spawn(W, Call("schedule", "rejected", r, NoId))
  ELSE performBackgroundTask(
         cancelPrevious([W EXCEPT !.cancelled = @ \ {task.id}], task.id),
         [Call("schedule", "start", r, task.id) EXCEPT
            !.action = task.action, !.interval = task.interval, !.opts = task.data])

\* a scheduleBackgroundTask that arms the timer whatever the interval
scheduleBackgroundTaskArm_Always(W, cid) ==
  LET c == W.calls[cid]
  IN Settle([W EXCEPT
               !.timers = @ \cup {TimerRec(FreeHandle(W), c)},
               !.scheduledTasks =
                  [k \in (DOMAIN @) \cup {c.id} |->
                     IF k = c.id THEN TaskRec(c, FreeHandle(W)) ELSE @[k]]],
            cid, "resolved")

\* lines 285-289, after the immediate execution
scheduleBackgroundTaskArm(W, cid) ==
  LET c == W.calls[cid]
      W1 == IF c.interval > 0
            THEN [W EXCEPT
                    !.timers = @ \cup {TimerRec(FreeHandle(W), c)},
                    !.scheduledTasks =
                       [k \in (DOMAIN @) \cup {c.id} |->
                          IF k = c.id THEN TaskRec(c, FreeHandle(W)) ELSE @[k]]]
            ELSE W
  IN Settle(W1, cid, "resolved")

\* a timer that stops at its first firing
timerFire_OneShot(W, t) ==
  performBackgroundTask(
    [W EXCEPT !.firings = @ + 1, !.timers = @ \ {t}],
    [Call("fire", "start", 0, t.id) EXCEPT
       !.action = t.action, !.interval = t.interval, !.opts = t.data])

\* a tick of setInterval(executeTask, interval)
timerFire(W, t) ==
  performBackgroundTask(
    [W EXCEPT !.firings = @ + 1],
    [Call("fire", "start", 0, t.id) EXCEPT
       !.action = t.action, !.interval = t.interval, !.opts = t.data])

\* what cancelScheduledTask(id) returns
cancelScheduledTaskReturns(W, id) == id \in DOMAIN W.scheduledTasks

cancelScheduledTask(W, id) ==
  LET W1 == [W EXCEPT !.cancelled = @ \cup {id}] IN
  IF id \in DOMAIN W.scheduledTasks
  THEN [clearInterval(W1, W.scheduledTasks[id].intervalId) EXCEPT
          !.scheduledTasks = Without(@, {id})]
  ELSE W1

\* the callbacks of chrome.storage.local.set (line 340) and remove (lines
\* 386-389) resolve the promise; chrome.runtime.lastError is not looked at
storageSettled(W, cid, ok) ==
  executed(IF ok THEN W ELSE [W EXCEPT !.calls[cid].log = "unchecked"], cid)

\* syncData: the callback of chrome.storage.local.get('flexPortalData')
syncDataGot(W, cid, val, ok2) ==
  LET c == W.calls[cid]
      currentData == IF "flexPortalData" \in DOMAIN val /\ val["flexPortalData"].t = "obj"
                     THEN val["flexPortalData"].o ELSE EmptyBag
      updatedData == Merge(Merge(currentData, c.opts),
                           [k \in {"lastSync"} |-> W.now])
      W1 == IF ok2
            THEN [W EXCEPT !.storage =
                    Merge(@, [k \in {"flexPortalData"} |-> Obj(updatedData)])]
            ELSE W
  IN Await(W1, cid, "storage", "syncSet", ok2, EmptyBag)

\* cleanupCache: the keys collected by the loop of lines 379-383
keysToRemove(items, maxAge, t) ==
  {k \in DOMAIN items :
     /\ items[k].t = "obj"
     /\ Lookup(items[k].o, "timestamp", 0) # 0
     /\ t - Lookup(items[k].o, "timestamp", 0) > maxAge}

\* cleanupCache: the callback of chrome.storage.local.get(null)
cleanupCacheGot(W, cid, items, ok2) ==
  LET c == W.calls[cid]
      maxAge == IF Lookup(c.opts, "maxAge", 0) # 0
                THEN Lookup(c.opts, "maxAge", 0) ELSE DefaultMaxAge
      keys == keysToRemove(items, maxAge, W.now)
  IN IF \E k \in DOMAIN items : items[k].t = "null"
     THEN [SetPc(W, cid, "stuck") EXCEPT !.uncaught = @ \cup {"cleanupCache"}]
     ELSE IF keys # {}
     THEN Await([W EXCEPT !.storage = IF ok2 THEN Without(@, keys) ELSE @],
                cid, "storage", "cleanupRemove", ok2, EmptyBag)
     ELSE executed(W, cid)

\* refreshAuthToken: the callback of chrome.storage.local.get('authToken')
refreshAuthTokenGot(W, cid, val) ==
  LET W1 == IF "authToken" \in DOMAIN val /\ val["authToken"].t = "str"
                /\ val["authToken"].s # ""
            THEN broadcastStart(W, "REFRESH_TOKEN") ELSE W
  IN executed(W1, cid)

\* initializeBackgroundTasks: chrome.storage.local.get('extensionSettings', ...)
initializeBackgroundTasks(W) ==
  Suspend(W, "storage", Call("init", "settingsGet", 0, NoId), TRUE,
          Restrict(W.storage, {"extensionSettings"}))

IntervalOr(settings, key, dflt) ==
  IF Lookup(settings, key, 0) # 0 THEN Lookup(settings, key, 0) ELSE dflt

\* the callback of lines 475-507: up to three tasks are scheduled, none awaited
initializeCallback(W, cid, val) ==
  LET settings == IF "extensionSettings" \in DOMAIN val /\ val["extensionSettings"].t = "obj"
                  THEN val["extensionSettings"].o ELSE EmptyBag
      W1 == IF Lookup(settings, "enableAutoSync", "false") = "true"
            THEN scheduleBackgroundTaskStart(W, 0,
                   Task("auto-sync", "SYNC_DATA",
                        IntervalOr(settings, "syncInterval", DefaultSyncInterval),
                        EmptyBag))
            ELSE W
      W2 == IF Lookup(settings, "enableStatusCheck", "false") = "true"
            THEN scheduleBackgroundTaskStart(W1, 0,
                   Task("status-check", "CHECK_STATUS",
                        IntervalOr(settings, "statusCheckInterval", DefaultStatusCheckInterval),
                        EmptyBag))
            ELSE W1
      W3 == scheduleBackgroundTaskStart(W2, 0,
              Task("daily-cleanup", "CLEANUP_CACHE", DailyCleanupInterval,
                   [k \in {"maxAge"} |-> DefaultMaxAge]))
  IN Drop(W3, cid)

\* ------------------------------------------------ alarms
\* chrome.alarms.onAlarm: the listener of line 520, then the one of line 864
onAlarm(W, name) ==
  LET W1 == CASE name = "PERIODIC_SYNC" ->
                   performBackgroundTask(W,
                     [Call("alarm", "start", 0, "periodic-sync") EXCEPT !.action = "SYNC_DATA"])
              [] name = "PERIODIC_CHECK" ->
                   performBackgroundTask(W,
                     [Call("alarm", "start", 0, "periodic-check") EXCEPT !.action = "CHECK_STATUS"])
              [] OTHER -> W
  IN IF name = "autoRefresh"
     THEN Suspend(W1, "storage", Call("autoRefresh", "autoRefreshGet", 0, NoId), TRUE,
                  Restrict(W1.storage, {"autoRefresh"}))
     ELSE W1

\* the callback of lines 866-879: the tabs are told to refresh when the
\* stored autoRefresh is truthy
autoRefreshGot(W, cid, val) ==
  Drop(IF "autoRefresh" \in DOMAIN val /\ val["autoRefresh"] = Bool(TRUE)
       THEN broadcastStart(W, "refreshData") ELSE W,
       cid)

\* ------------------------------------------------ offscreen document
\* ensureOffscreenDocument is done: handleSendEmail goes on to its second
\* chrome.runtime.getContexts, a bare ensureOffscreenDocument is over
ensureDone(W, cid) ==
  IF W.calls[cid].fn = "email"
  THEN Await(W, cid, "runtime", "emailCtx", W.offscreenDoc, EmptyBag)
  ELSE Drop(W, cid)

\* ensureOffscreenDocument up to its first await, or to its early return
ensureOffscreenDocument(W, c) ==
  IF W.offscreenCreated
  THEN IF c.fn = "email" THEN Spawn(W, [c EXCEPT !.pc = "ensured"]) ELSE W
  ELSE Suspend(W, "runtime", [c EXCEPT !.pc = "ensureCtx"], W.offscreenDoc, EmptyBag)

\* after the first getContexts: the document exists, or createDocument is
\* issued, which fails when a document exists by then
ensureContextsGot(W, cid, exists, ok2) ==
  IF exists
  THEN ensureDone([W EXCEPT !.offscreenCreated = TRUE], cid)
  ELSE LET created == ok2 /\ ~W.offscreenDoc IN
       Await([W EXCEPT !.offscreenDoc = @ \/ created], cid, "runtime",
             "ensureCreate", created, EmptyBag)

ensureCreateGot(W, cid, ok) ==
  ensureDone([W EXCEPT !.offscreenCreated = @ \/ ok], cid)

handleSendEmail(W, r) == ensureOffscreenDocument(W, Call("email", "start", r, NoId))

\* the second getContexts answered: chrome.runtime.sendMessage to the document
emailContextsGot(W, cid, ok2) == Await(W, cid, "runtime", "emailSend", ok2, EmptyBag)

emailSent(W, cid, ok) ==
  Drop(sendResponse(W, W.calls[cid].req, 2, IF ok THEN "yes" ELSE "no",
                    IF ok THEN "" ELSE "error.message", FALSE), cid)

\* ------------------------------------------------ portal data and settings
Truthy(bag, k) == k \in DOMAIN bag /\ bag[k].t = "str" /\ bag[k].s # ""

handleFetchPortalData(W, r, data) ==
  IF ~Truthy(data.bag, "url")
  THEN sendResponse(W, r, 3, "no", "URL is required", TRUE)
  ELSE Suspend(W, "storage", Call("fetch", "fetchGet", r, NoId), TRUE,
               Restrict(W.storage, {"authToken"}))

\* the auth token is read: fetch(url, ...) is issued
fetchTokenGot(W, cid, ok2) == Await(W, cid, "network", "fetchNet", ok2, EmptyBag)

fetchSettled(W, cid, ok) ==
  Drop(sendResponse(W, W.calls[cid].req, 3, IF ok THEN "yes" ELSE "no",
                    IF ok THEN "" ELSE "error.message", FALSE), cid)

handleSaveUserSettings(W, r, data, ok) ==
  IF ~data.present \/ DOMAIN data.bag = {}
  THEN sendResponse(W, r, 3, "no", "No settings provided", TRUE)
  ELSE Suspend([W EXCEPT !.storage = IF ok THEN Merge(@, data.bag) ELSE @],
               "storage", Call("save", "saveSet", r, NoId), ok, EmptyBag)

handleGetUserSettings(W, r, ok) ==
  Suspend(W, "storage", Call("getSettings", "settingsAll", r, NoId), ok, W.storage)

\* the callbacks of handleSaveUserSettings and handleGetUserSettings
storageReplied(W, cid, ok) ==
  Drop(sendResponse(W, W.calls[cid].req, 3, IF ok THEN "yes" ELSE "no",
                    IF ok THEN "" ELSE "lastError.message", FALSE), cid)

LogoutKeys == {"authToken", "userData", "sessionToken"}

handleLogoutUser(W, r, ok) ==
  Suspend([W EXCEPT !.storage = IF ok THEN Without(@, LogoutKeys) ELSE @],
          "storage", Call("logout", "logoutRemove", r, NoId), ok, EmptyBag)

\* a logoutUser callback that does not look at chrome.runtime.lastError
logoutRemoved_Unchecked(W, cid, ok) ==
  Drop(sendResponse(broadcastStart(W, "userLoggedOut"), W.calls[cid].req, 3,
                    "yes", "", FALSE), cid)

\* the callback of chrome.storage.local.remove, lines 799-819
logoutRemoved(W, cid, ok) ==
  IF ok
  THEN Drop(sendResponse(broadcastStart(W, "userLoggedOut"), W.calls[cid].req, 3,
                         "yes", "", FALSE), cid)
  ELSE Drop(sendResponse(W, W.calls[cid].req, 3, "no", "lastError.message", FALSE), cid)

\* ------------------------------------------------ session validity check
\* the truthiness of a stored value
TruthyValue(v) ==
  CASE v.t = "str" -> v.s # ""
    [] v.t = "num" -> v.n # 0
    [] v.t = "bool" -> v.s = "true"
    [] v.t = "null" -> FALSE
    [] OTHER -> TRUE

SessionKeys == {"sessionToken", "sessionExpiry", "authToken"}

\* the callback of setInterval(..., 60000), line 850:
\* chrome.storage.local.get(['sessionToken', 'sessionExpiry'], ...)
sessionCheck(W) ==
  Suspend(W, "storage", Call("session", "sessionGet", 0, NoId), TRUE,
          Restrict(W.storage, {"sessionToken", "sessionExpiry"}))

\* result.sessionToken && result.sessionExpiry && now > result.sessionExpiry,
\* for an expiry stored as a number
sessionExpired(result, t) ==
  /\ "sessionToken" \in DOMAIN result /\ TruthyValue(result["sessionToken"])
  /\ "sessionExpiry" \in DOMAIN result /\ TruthyValue(result["sessionExpiry"])
  /\ result["sessionExpiry"].t = "num"
  /\ t > result["sessionExpiry"].n

\* a check that leaves the auth token in storage
sessionCheckGot_KeepsAuthToken(W, cid, result) ==
  Drop(IF sessionExpired(result, W.now)
       THEN [W EXCEPT !.storage = Without(@, {"sessionToken", "sessionExpiry"})]
       ELSE W,
       cid)

\* the callback of lines 851-860; chrome.storage.local.remove is given no
\* callback and is taken to succeed
sessionCheckGot(W, cid, result) ==
  Drop(IF sessionExpired(result, W.now)
       THEN [W EXCEPT !.storage = Without(@, SessionKeys)]
       ELSE W,
       cid)

\* ------------------------------------------------ retryWithBackoff
\* (src/unnamed/part_001, lines 628-638)
DefaultMaxAttempts == 3
DefaultDelay == 1000

\* Math.pow(2, n) for a non-negative integer n
RECURSIVE Pow2(_)
Pow2(n) == IF n = 0 THEN 1 ELSE 2 * Pow2(n - 1)

\* what one call of fn settles with: a value or an error
Resolved(v) == [ok |-> TRUE, v |-> v]

Rejected(e) == [ok |-> FALSE, v |-> e]

\* before retryWithBackoff is called
NoRetry ==
  [pc |-> "none", attempt |-> 0, maxAttempts |-> 0, delay |-> 0,
   fnCalls |-> 0, outcomes |-> <<>>, waits |-> <<>>,
   result |-> Resolved("undefined")]

\* the test of the for loop, line 629, and the body up to `await fn()`;
\* a loop that ends returns undefined
retryLoop(R) ==
  IF R.attempt <= R.maxAttempts
  THEN [R EXCEPT !.pc = "callFn", !.fnCalls = @ + 1]
  ELSE [R EXCEPT !.pc = "returned", !.result = Resolved("undefined")]

retryWithBackoff(maxAttempts, delay) ==
  retryLoop([NoRetry EXCEPT !.attempt = 1, !.maxAttempts = maxAttempts,
                            !.delay = delay])

\* a retry that waits the same delay after every failure
fnSettled_FixedDelay(R, out) ==
  LET R1 == [R EXCEPT !.outcomes = Append(@, out)] IN
    IF out.ok THEN [R1 EXCEPT !.pc = "returned", !.result = out]
    ELSE IF R.attempt = R.maxAttempts
         THEN [R1 EXCEPT !.pc = "thrown", !.result = out]
         ELSE [R1 EXCEPT !.pc = "wait", !.waits = Append(@, R.delay)]

\* `return await fn()` settles, lines 630-636
fnSettled(R, out) ==
  LET R1 == [R EXCEPT !.outcomes = Append(@, out)] IN
    IF out.ok THEN [R1 EXCEPT !.pc = "returned", !.result = out]
    ELSE IF R.attempt = R.maxAttempts
         THEN [R1 EXCEPT !.pc = "thrown", !.result = out]
         ELSE [R1 EXCEPT !.pc = "wait",
                         !.waits = Append(@, R.delay * Pow2(R.attempt - 1))]

\* the timer of line 635 fires: attempt++ and the loop test
waitElapsed(R) == retryLoop([R EXCEPT !.attempt = @ + 1])

\* ------------------------------------------------ install and update
\* the configuration of lines 666-672
DefaultSettings ==
  [k \in {"extensionEnabled", "autoRefresh", "refreshInterval", "notifications", "theme"} |->
     CASE k = "extensionEnabled" -> Bool(TRUE)
       [] k = "autoRefresh" -> Bool(FALSE)
       [] k = "refreshInterval" -> Num(5000)
       [] k = "notifications" -> Bool(TRUE)
       [] OTHER -> Str("light")]

\* chrome.storage.local.set of the defaults, without a callback
setDefaults(W, ok) ==
  [W EXCEPT !.storage = IF ok THEN Merge(@, DefaultSettings) ELSE @,
            !.installEvent.defaultsSet = @ + 1,
            !.installEvent.ok = ok]

\* chrome.tabs.create: the page opens in a new tab
tabsCreate(W, receiver) == [W EXCEPT !.tabs = Append(@, receiver)]

\* onInstalled listeners that do not look at the reason
onInstalled_AnyReason(W, reason, ok, receiver) ==
  LET W0 == [W EXCEPT !.installEvent.reason = reason]
      W1 == tabsCreate(W0, FALSE)
      W2 == ensureOffscreenDocument(W1, Call("ensure", "start", 0, NoId))
  IN tabsCreate(setDefaults(W2, ok), receiver)

\* chrome.runtime.onInstalled: the listeners of lines 451, 593 and 663, in
\* the order of their registration
onInstalled(W, reason, ok, receiver) ==
  LET W0 == [W EXCEPT !.installEvent.reason = reason]
      W1 == IF reason = "install" THEN tabsCreate(W0, FALSE) ELSE W0
      W2 == ensureOffscreenDocument(W1, Call("ensure", "start", 0, NoId))
  IN IF reason = "install" THEN tabsCreate(setDefaults(W2, ok), receiver) ELSE W2

\* ------------------------------------------------ message listeners
returned(W, r, l, v) ==
  [W EXCEPT !.requests[r].ret[l] = v, !.requests[r].stage = l + 1]

\* an exception leaves the listener: it returns nothing
threw(W, r, l) ==
  [W EXCEPT !.requests[r].ret[l] = "threw", !.requests[r].stage = l + 1,
            !.uncaught = @ \cup {"listener"}]

\* the actions whose case of the first listener ends in `return true`
Async1 == {"SHOW_NOTIFICATION", "UPDATE_NOTIFICATION", "CLEAR_NOTIFICATION",
           "CLEAR_ALL_NOTIFICATIONS", "SCHEDULE_TASK"}

Sync1 == {"GET_ACTIVE_NOTIFICATIONS", "GET_EXTENSION_STATUS"}

\* a first listener whose cases end in `break`
listener1Returns_Break(action) == "undefined"

listener1Returns(action) == IF action \in Async1 THEN "true" ELSE "undefined"

\* a default branch that sends no reply
unknownAction1_Silent(W, r) == W

\* the default branch of line 171
unknownAction1(W, r) == sendResponse(W, r, 1, "no", "Unknown action", TRUE)

\* a listing that leaves out the record set first
getActiveNotifications_SkipsFirst(map) ==
  [i \in 1..(Len(map) - 1) |->
     [id |-> map[i + 1].id, createdAt |-> map[i + 1].createdAt,
      updatedAt |-> map[i + 1].updatedAt, options |-> map[i + 1].options]]

\* Array.from(activeNotifications.entries()).map(([id, data]) => ({id, ...data}))
getActiveNotifications(map) ==
  [i \in 1..Len(map) |->
     [id |-> map[i].id, createdAt |-> map[i].createdAt,
      updatedAt |-> map[i].updatedAt, options |-> map[i].options]]

\* the case of lines 147-153
sendActiveNotifications(W, r) ==
  [W EXCEPT !.requests[r].replies =
     Append(@, [ReplyRec(1, "yes", "", TRUE) EXCEPT
                  !.notifications = getActiveNotifications(W.activeNotifications)])]

\* the listener of line 118; ok is the outcome of the platform call it issues
listener1(W, r, ok) ==
  LET q == W.requests[r].req IN
  IF q.null THEN threw(W, r, 1)
  ELSE returned(
         CASE q.action = "SHOW_NOTIFICATION" ->
                showNotificationStart(W, r, q.id, q.options, ok)
           [] q.action = "UPDATE_NOTIFICATION" ->
                updateNotificationStart(W, r, q.id, q.options, ok)
           [] q.action = "CLEAR_NOTIFICATION" ->
                clearNotificationStart(W, r, q.id, ok)
           [] q.action = "CLEAR_ALL_NOTIFICATIONS" ->
                clearAllNotificationsStart(W, r, ok)
           [] q.action = "SCHEDULE_TASK" ->
                scheduleBackgroundTaskStart(W, r, q.task)
           [] q.action = "GET_ACTIVE_NOTIFICATIONS" ->
                sendActiveNotifications(W, r)
           [] q.action = "GET_EXTENSION_STATUS" ->
                sendResponse(W, r, 1, "yes", "", TRUE)
           [] OTHER -> unknownAction1(W, r),
         r, 1, listener1Returns(q.action))

listener2Returns(action) == IF action = "sendEmail" THEN "true" ELSE "undefined"

\* the listener of line 598
listener2(W, r) ==
  LET q == W.requests[r].req IN
  IF q.null THEN threw(W, r, 2)
  ELSE returned(
         CASE q.action = "sendEmail" -> handleSendEmail(W, r)
           [] q.action = "getOffscreenStatus" -> sendResponse(W, r, 2, "na", "", TRUE)
           [] OTHER -> W,
         r, 2, listener2Returns(q.action))

Handled3 == {"fetchPortalData", "saveUserSettings", "getUserSettings", "logoutUser"}

\* the default branch of line 706
unknownAction3(W, r) == sendResponse(W, r, 3, "no", "Unknown action", TRUE)

\* the listener of line 685: it returns true on every path that returns
listener3(W, r, ok) ==
  LET q == W.requests[r].req IN
  IF q.null \/ (q.action = "fetchPortalData" /\ ~q.data.present) THEN threw(W, r, 3)
  ELSE returned(
         CASE q.action = "fetchPortalData" -> handleFetchPortalData(W, r, q.data)
           [] q.action = "saveUserSettings" -> handleSaveUserSettings(W, r, q.data, ok)
           [] q.action = "getUserSettings" -> handleGetUserSettings(W, r, ok)
           [] q.action = "logoutUser" -> handleLogoutUser(W, r, ok)
           [] OTHER -> unknownAction3(W, r),
         r, 3, "true")

NewRequest(q) ==
  [req |-> q, stage |-> 1, ret |-> [l \in 1..3 |-> "none"], replies |-> <<>>]

\* ------------------------------------------------------------ scheduling
MicroPcs == {"resolved", "rejected", "executed", "ensured"}

\* no listener is still to be called for a request and no microtask is
\* pending: the next turn is a new task of the event loop
Idle ==
  /\ \A r \in 1..Len(requests) : requests[r].stage = 4
  /\ \A c \in DOMAIN calls : calls[c].pc \notin MicroPcs

HeadIs(chan, kind, pcs) ==
  /\ Len(inbox[chan]) > 0
  /\ Head(inbox[chan]).kind = kind
  /\ kind = "reply" => calls[Head(inbox[chan]).cid].pc \in pcs

\* the world with the head of a channel taken
Taken(chan) == [World EXCEPT !.inbox[chan] = Tail(@)]

\* ------------------------------------------------------------ actions
\* a request arrives and the first listener is called with it
OnMessage1(Inputs, max) ==
  /\ Idle
  /\ Len(requests) < max
  /\ \E q \in Inputs, ok \in BOOLEAN :
       Becomes(listener1([World EXCEPT !.requests = Append(@, NewRequest(q))],
                         Len(requests) + 1, ok))

OnMessage2 ==
  \E r \in 1..Len(requests) :
    /\ requests[r].stage = 2
    /\ Becomes(listener2(World, r))

OnMessage3 ==
  \E r \in 1..Len(requests), ok \in BOOLEAN :
    /\ requests[r].stage = 3
    /\ Becomes(listener3(World, r, ok))

\* .then(() => sendResponse({success: true}))
\* .catch(error => sendResponse({success: false, error: error.message}))
ThenSendResponse ==
  \E cid \in DOMAIN calls :
    /\ calls[cid].pc \in {"resolved", "rejected"}
    /\ Becomes(Drop(sendResponse(World, calls[cid].req, 1,
                                 IF calls[cid].pc = "resolved" THEN "yes" ELSE "no",
                                 IF calls[cid].pc = "resolved" THEN "" ELSE "error.message",
                                 FALSE), cid))

\* scheduleBackgroundTask after `await executeTask()`
ScheduleArm ==
  \E cid \in DOMAIN calls :
    /\ calls[cid].pc = "executed"
    /\ Becomes(scheduleBackgroundTaskArm(World, cid))

\* handleSendEmail after `await ensureOffscreenDocument()` returned early
EmailEnsured ==
  \E cid \in DOMAIN calls :
    /\ calls[cid].pc = "ensured"
    /\ Becomes(ensureDone(World, cid))

ShowNotificationAnswer ==
  /\ Idle /\ HeadIs("notifications", "reply", {"awaitCreate"})
  /\ LET m == Head(inbox["notifications"]) IN
       Becomes(showNotificationResume(Taken("notifications"), m.cid, m.ok))

UpdateNotificationAnswer ==
  /\ Idle /\ HeadIs("notifications", "reply", {"awaitUpdate"})
  /\ LET m == Head(inbox["notifications"]) IN
       Becomes(updateNotificationResume(Taken("notifications"), m.cid, m.ok))

ClearNotificationAnswer ==
  /\ Idle /\ HeadIs("notifications", "reply", {"awaitClear"})
  /\ LET m == Head(inbox["notifications"]) IN
       Becomes(clearNotificationResume(Taken("notifications"), m.cid, m.ok))

ClearAllAnswer ==
  /\ Idle /\ HeadIs("notifications", "reply", {"awaitClearAll"})
  /\ LET m == Head(inbox["notifications"]) IN
       \E ok2 \in BOOLEAN :
         Becomes(clearAllNotificationsResume(Taken("notifications"), m.cid, m.ok, ok2))

\* the user or the system closes a notification the platform shows
UserClose ==
  /\ Idle /\ userEvents < MaxUserEvents
  /\ \E id \in platformNotifs :
       Becomes([World EXCEPT
                  !.platformNotifs = @ \ {id},
                  !.userEvents = @ + 1,
                  !.inbox["notifications"] = Append(@, Msg("closed", 0, TRUE, id, EmptyBag))])

NotificationClosed ==
  /\ Idle /\ HeadIs("notifications", "closed", {})
  /\ Becomes(onClosed(Taken("notifications"), Head(inbox["notifications"]).id))

\* the user clicks a notification the platform shows
UserClick ==
  /\ Idle /\ userEvents < MaxUserEvents
  /\ \E id \in platformNotifs :
       Becomes([World EXCEPT
                  !.userEvents = @ + 1,
                  !.inbox["notifications"] = Append(@, Msg("clicked", 0, TRUE, id, EmptyBag))])

NotificationClicked ==
  /\ Idle /\ HeadIs("notifications", "clicked", {})
  /\ \E ok \in BOOLEAN :
       Becomes(onClicked(Taken("notifications"), Head(inbox["notifications"]).id, ok))

InitializeAnswer ==
  /\ Idle /\ HeadIs("storage", "reply", {"settingsGet"})
  /\ LET m == Head(inbox["storage"]) IN
       Becomes(initializeCallback(Taken("storage"), m.cid, m.val))

\* the storage callbacks of syncData, cleanupCache and refreshAuthToken
TaskStorageAnswer ==
  /\ Idle
  /\ HeadIs("storage", "reply", {"syncGet", "syncSet", "cleanupGet", "cleanupRemove", "refreshGet"})
  /\ LET m == Head(inbox["storage"])
         pc == calls[m.cid].pc
         W == Taken("storage")
     IN \E ok2 \in BOOLEAN :
          Becomes(CASE pc = "syncGet" -> syncDataGot(W, m.cid, m.val, ok2)
                    [] pc = "cleanupGet" -> cleanupCacheGot(W, m.cid, m.val, ok2)
                    [] pc = "refreshGet" -> refreshAuthTokenGot(W, m.cid, m.val)
                    [] OTHER -> storageSettled(W, m.cid, m.ok))

AlarmNames == {"PERIODIC_SYNC", "PERIODIC_CHECK", "autoRefresh", "other"}

\* the platform fires an alarm
Alarm ==
  /\ Idle /\ firings < MaxFirings
  /\ \E name \in AlarmNames :
       Becomes(onAlarm([World EXCEPT !.firings = @ + 1], name))

AutoRefreshAnswer ==
  /\ Idle /\ HeadIs("storage", "reply", {"autoRefreshGet"})
  /\ LET m == Head(inbox["storage"]) IN
       Becomes(autoRefreshGot(Taken("storage"), m.cid, m.val))

\* a live timer fires; max bounds the firings of a run
TimerFires(max) ==
  /\ Idle /\ firings < max
  /\ \E t \in timers : Becomes(timerFire(World, t))

TimerFire == TimerFires(MaxFirings)

CancelTask(TaskIds) ==
  /\ Idle
  /\ \E id \in TaskIds : Becomes(cancelScheduledTask(World, id))

\* chrome.runtime.onStartup: the listeners of lines 463 and 589
Startup ==
  /\ Idle /\ ~startupFired
  /\ Becomes(ensureOffscreenDocument(
               initializeBackgroundTasks([World EXCEPT !.startupFired = TRUE]),
               Call("ensure", "start", 0, NoId)))

\* the extension has been installed or updated, or the browser updated
Installed ==
  /\ Idle /\ installEvent.reason = "none"
  /\ \E reason \in {"install", "update", "chrome_update"}, ok \in BOOLEAN,
        receiver \in BOOLEAN :
       Becomes(onInstalled(World, reason, ok, receiver))

TabsAnswer ==
  /\ Idle /\ HeadIs("tabs", "reply", {"query", "sent"})
  /\ LET m == Head(inbox["tabs"]) IN
       Becomes(IF calls[m.cid].pc = "query"
               THEN broadcastCallback(Taken("tabs"), m.cid)
               ELSE sendSettled(Taken("tabs"), m.cid))

RuntimeAnswer ==
  /\ Idle
  /\ HeadIs("runtime", "reply", {"ensureCtx", "ensureCreate", "emailCtx", "emailSend"})
  /\ LET m == Head(inbox["runtime"])
         pc == calls[m.cid].pc
         W == Taken("runtime")
     IN \E ok2 \in BOOLEAN :
          Becomes(CASE pc = "ensureCtx" -> ensureContextsGot(W, m.cid, m.ok, ok2)
                    [] pc = "ensureCreate" -> ensureCreateGot(W, m.cid, m.ok)
                    [] pc = "emailCtx" -> emailContextsGot(W, m.cid, ok2)
                    [] OTHER -> emailSent(W, m.cid, m.ok))

FetchTokenAnswer ==
  /\ Idle /\ HeadIs("storage", "reply", {"fetchGet"})
  /\ \E ok2 \in BOOLEAN :
       Becomes(fetchTokenGot(Taken("storage"), Head(inbox["storage"]).cid, ok2))

FetchAnswer ==
  /\ Idle /\ HeadIs("network", "reply", {"fetchNet"})
  /\ LET m == Head(inbox["network"]) IN
       Becomes(fetchSettled(Taken("network"), m.cid, m.ok))

SettingsAnswer ==
  /\ Idle /\ HeadIs("storage", "reply", {"saveSet", "settingsAll"})
  /\ LET m == Head(inbox["storage"]) IN
       Becomes(storageReplied(Taken("storage"), m.cid, m.ok))

LogoutAnswer ==
  /\ Idle /\ HeadIs("storage", "reply", {"logoutRemove"})
  /\ LET m == Head(inbox["storage"]) IN
       Becomes(logoutRemoved(Taken("storage"), m.cid, m.ok))

\* retryWithBackoff is called
RetryCall(attempts, delays) ==
  /\ retry.pc = "none"
  /\ \E m \in attempts, d \in delays :
       Becomes([World EXCEPT !.retry = retryWithBackoff(m, d)])

\* the promise of fn() settles
FnSettles(outcomes) ==
  /\ retry.pc = "callFn"
  /\ \E out \in outcomes : Becomes([World EXCEPT !.retry = fnSettled(@, out)])

\* the timer of the wait fires
WaitElapses ==
  /\ retry.pc = "wait"
  /\ Becomes([World EXCEPT !.retry = waitElapsed(@)])

\* a tick of the session validity timer
SessionCheck ==
  /\ Idle /\ firings < MaxFirings
  /\ Becomes(sessionCheck([World EXCEPT !.firings = @ + 1]))

SessionAnswer ==
  /\ Idle /\ HeadIs("storage", "reply", {"sessionGet"})
  /\ LET m == Head(inbox["storage"]) IN
       Becomes(sessionCheckGot(Taken("storage"), m.cid, m.val))

Tick ==
  /\ Idle /\ now < MaxTime
  /\ now' = now + 1
  /\ UNCHANGED <<requests, calls, inbox, activeNotifications, platformNotifs,
                 scheduledTasks, timers, firings, storage, tabs,
                 offscreenCreated, offscreenDoc, userEvents, startupFired, uncaught,
                 cancelled, lastEvent, installEvent, retry>>

\* ------------------------------------------------------------ initial state
\* the state once the script has been evaluated: the registries are empty
\* and initializeBackgroundTasks() of line 577 waits for its settings
\* the worker before background.js has run
Unloaded(st, tb, doc, t) ==
    [requests |-> <<>>, calls |-> [c \in {} |-> Call("none", "none", 0, NoId)],
     inbox |-> [ch \in Channels |-> <<>>],
     activeNotifications |-> <<>>, platformNotifs |-> {},
     scheduledTasks |-> [k \in {} |-> 0], timers |-> {},
     firings |-> 0, storage |-> st, tabs |-> tb, offscreenCreated |-> FALSE,
     offscreenDoc |-> doc, now |-> t, userEvents |-> 0, startupFired |-> FALSE,
     uncaught |-> {}, cancelled |-> {},
     lastEvent |-> [kind |-> "none", id |-> NoId],
     installEvent |-> [reason |-> "none", defaultsSet |-> 0, ok |-> TRUE],
     retry |-> NoRetry]

Loaded(st, tb, doc, t) == initializeBackgroundTasks(Unloaded(st, tb, doc, t))

Is(W) ==
  /\ requests = W.requests
  /\ calls = W.calls
  /\ inbox = W.inbox
  /\ activeNotifications = W.activeNotifications
  /\ platformNotifs = W.platformNotifs
  /\ scheduledTasks = W.scheduledTasks
  /\ timers = W.timers
  /\ firings = W.firings
  /\ storage = W.storage
  /\ tabs = W.tabs
  /\ offscreenCreated = W.offscreenCreated
  /\ offscreenDoc = W.offscreenDoc
  /\ now = W.now
  /\ userEvents = W.userEvents
  /\ startupFired = W.startupFired
  /\ uncaught = W.uncaught
  /\ cancelled = W.cancelled
  /\ lastEvent = W.lastEvent
  /\ installEvent = W.installEvent
  /\ retry = W.retry

EmptyStorage == [k \in {} |-> Null]

\* ------------------------------------------------------- specifications
NotifIds == {"n1", "n2"}

ClickBag == [k \in {"clickAction"} |-> "open"]

TitleBag == [k \in {"title"} |-> "t2"]

NotifInputs ==
  {Request("SHOW_NOTIFICATION", id, ClickBag, NoTask, NoData) : id \in NotifIds}
  \cup {Request("UPDATE_NOTIFICATION", id, TitleBag, NoTask, NoData) : id \in NotifIds}
  \cup {Request("CLEAR_NOTIFICATION", id, EmptyBag, NoTask, NoData) : id \in NotifIds}
  \cup {Request("CLEAR_ALL_NOTIFICATIONS", NoId, EmptyBag, NoTask, NoData)}

\* the notification registry under requests and platform close events
InitNotif == Is(Loaded(EmptyStorage, <<>>, FALSE, 0))

NextNotif ==
  \/ OnMessage1(NotifInputs, MaxRequests)
  \/ OnMessage2
  \/ OnMessage3
  \/ ThenSendResponse
  \/ ShowNotificationAnswer
  \/ UpdateNotificationAnswer
  \/ ClearNotificationAnswer
  \/ ClearAllAnswer
  \/ UserClose
  \/ NotificationClosed

SpecNotif == InitNotif /\ [][NextNotif]_vars

\* every action name a listener knows, one that none knows, and the bodies
\* that lack what their handler reads
UrlBag == [k \in {"url"} |-> Str("https://app.flexportal.com/api")]

MethodBag == [k \in {"method"} |-> Str("POST")]

ThemeBag == [k \in {"theme"} |-> Str("dark")]

SyncTask == Task("t1", "SYNC_DATA", 1000, [k \in {"note"} |-> "v1"])

Plain(action) == Request(action, NoId, EmptyBag, NoTask, NoData)

RouterInputs ==
  {Request("SHOW_NOTIFICATION", "n1", ClickBag, NoTask, NoData),
   Request("UPDATE_NOTIFICATION", "n1", TitleBag, NoTask, NoData),
   Request("CLEAR_NOTIFICATION", "n1", EmptyBag, NoTask, NoData),
   Plain("CLEAR_ALL_NOTIFICATIONS"),
   Plain("GET_ACTIVE_NOTIFICATIONS"),
   Plain("GET_EXTENSION_STATUS"),
   Request("SCHEDULE_TASK", NoId, EmptyBag, SyncTask, NoData),
   Plain("SCHEDULE_TASK"),
   Plain("sendEmail"),
   Plain("getOffscreenStatus"),
   Request("fetchPortalData", NoId, EmptyBag, NoTask, Data(UrlBag)),
   Request("fetchPortalData", NoId, EmptyBag, NoTask, Data(MethodBag)),
   Plain("fetchPortalData"),
   Request("saveUserSettings", NoId, EmptyBag, NoTask, Data(ThemeBag)),
   Plain("saveUserSettings"),
   Plain("getUserSettings"),
   Plain("logoutUser"),
   Plain("PING"),
   NullRequest}

TokenStorage == [k \in {"authToken"} |-> Str("tok")]

\* the three message listeners under every kind of request
InitRouter == Is(Loaded(TokenStorage, <<TRUE, FALSE>>, FALSE, 0))

NextRouter ==
  \/ OnMessage1(RouterInputs, MaxRouterRequests)
  \/ OnMessage2
  \/ OnMessage3
  \/ ThenSendResponse
  \/ ScheduleArm
  \/ EmailEnsured
  \/ ShowNotificationAnswer
  \/ UpdateNotificationAnswer
  \/ ClearNotificationAnswer
  \/ ClearAllAnswer
  \/ InitializeAnswer
  \/ TaskStorageAnswer
  \/ TabsAnswer
  \/ RuntimeAnswer
  \/ FetchTokenAnswer
  \/ FetchAnswer
  \/ SettingsAnswer
  \/ LogoutAnswer

SpecRouter == InitRouter /\ [][NextRouter]_vars

\* the scheduler under schedule requests, the two initializations, timer
\* firings and cancellations
\* settings whose one value is null
NullBag == [k \in {"cache"} |-> Null]

SchedInputs ==
  {Request("SCHEDULE_TASK", NoId, EmptyBag, SyncTask, NoData),
   Request("SCHEDULE_TASK", NoId, EmptyBag,
           Task("t1", "CHECK_STATUS", 2000, EmptyBag), NoData),
   Request("SCHEDULE_TASK", NoId, EmptyBag,
           Task("t1", "REFRESH_TOKEN", 0, EmptyBag), NoData),
   Request("SCHEDULE_TASK", NoId, EmptyBag,
           Task("daily-cleanup", "LATER_ACTION", 3000, EmptyBag), NoData),
   Request("saveUserSettings", NoId, EmptyBag, NoTask, Data(NullBag))}

SchedTaskIds == {"t1", "daily-cleanup"}

InitSched == Is(Loaded(EmptyStorage, <<TRUE>>, FALSE, 0))

NextSched ==
  \/ OnMessage1(SchedInputs, MaxSchedRequests)
  \/ OnMessage2
  \/ OnMessage3
  \/ ThenSendResponse
  \/ ScheduleArm
  \/ InitializeAnswer
  \/ TaskStorageAnswer
  \/ TabsAnswer
  \/ RuntimeAnswer
  \/ TimerFire
  \/ CancelTask(SchedTaskIds)
  \/ Startup
  \/ SettingsAnswer

SpecSched == InitSched /\ [][NextSched]_vars

\* shown notifications under clicks and closes, with tabs to fan out to and
\* the daily cleanup scheduled
EventInputs ==
  {Request("SHOW_NOTIFICATION", "n1", ClickBag, NoTask, NoData),
   Request("SHOW_NOTIFICATION", "n2", TitleBag, NoTask, NoData)}

InitEvents == Is(Loaded(EmptyStorage, <<FALSE, TRUE>>, FALSE, 0))

NextEvents ==
  \/ OnMessage1(EventInputs, MaxEventRequests)
  \/ OnMessage2
  \/ OnMessage3
  \/ ThenSendResponse
  \/ ShowNotificationAnswer
  \/ ClearNotificationAnswer
  \/ UserClick
  \/ NotificationClicked
  \/ UserClose
  \/ NotificationClosed
  \/ TabsAnswer
  \/ InitializeAnswer
  \/ TaskStorageAnswer
  \/ ScheduleArm

SpecEvents == InitEvents /\ [][NextEvents]_vars

\* the worker after a restart: registries empty, chrome.storage.local as an
\* earlier run left it, the clock past the first week
StoredSettings(autoSync, statusCheck) ==
  [k \in {"extensionSettings"} |->
     Obj([f \in {"enableAutoSync", "enableStatusCheck"} |->
            IF (f = "enableAutoSync" /\ autoSync) \/ (f = "enableStatusCheck" /\ statusCheck)
            THEN "true" ELSE "false"])]

RestartNow == DefaultMaxAge + 10

Stamped(t) == Obj([k \in {"timestamp"} |-> t])

\* cached entries: none, an old and a recent one, an old one beside an item
\* whose value is null
RestartItems ==
  {EmptyStorage,
   [k \in {"pageA", "pageB"} |-> IF k = "pageA" THEN Stamped(5) ELSE Stamped(RestartNow - 1)],
   [k \in {"pageA", "cache"} |-> IF k = "pageA" THEN Stamped(5) ELSE Null]}

InitRestart ==
  \E autoSync \in BOOLEAN, statusCheck \in BOOLEAN, items \in RestartItems :
    Is(Loaded(Merge(StoredSettings(autoSync, statusCheck), items), <<TRUE>>, FALSE,
              RestartNow))

NextRestart ==
  \/ InitializeAnswer
  \/ TaskStorageAnswer
  \/ ScheduleArm
  \/ TabsAnswer
  \/ Startup
  \/ RuntimeAnswer
  \/ TimerFire

SpecRestart == InitRestart /\ [][NextRestart]_vars

\* the registry under show, clear and listing requests alone; one show
\* has options that override the defaults
MaxListingRequests == 4

UrgentBag ==
  [k \in {"requireInteraction", "icon", "badge"} |->
     IF k = "requireInteraction" THEN "true"
     ELSE IF k = "icon" THEN "icons/alert.png" ELSE "icons/alert-badge.png"]

ListingInputs ==
  {Request("SHOW_NOTIFICATION", "n1", ClickBag, NoTask, NoData),
   Request("SHOW_NOTIFICATION", "n2", UrgentBag, NoTask, NoData),
   Request("CLEAR_NOTIFICATION", "n1", EmptyBag, NoTask, NoData),
   Plain("GET_ACTIVE_NOTIFICATIONS")}

InitListing == Is(Loaded(EmptyStorage, <<>>, FALSE, 0))

NextListing ==
  \/ OnMessage1(ListingInputs, MaxListingRequests)
  \/ OnMessage2
  \/ OnMessage3
  \/ ThenSendResponse
  \/ ShowNotificationAnswer
  \/ ClearNotificationAnswer

SpecListing == InitListing /\ [][NextListing]_vars

\* the lifecycle events: install or update, browser startup, and the
\* initialization they run beside
UserStorage ==
  [k \in {"theme", "extensionSettings"} |->
     IF k = "theme" THEN Str("dark")
     ELSE Obj([f \in {"enableStatusCheck"} |-> "true"])]

InitInstall ==
  \E st \in {EmptyStorage, UserStorage} : Is(Loaded(st, <<TRUE>>, FALSE, 0))

NextInstall ==
  \/ Installed
  \/ Startup
  \/ InitializeAnswer
  \/ TaskStorageAnswer
  \/ ScheduleArm
  \/ RuntimeAnswer
  \/ TabsAnswer

SpecInstall == InitInstall /\ [][NextInstall]_vars

\* the data aggregate under a sync on request and the alarms
SyncInputs ==
  {Request("SCHEDULE_TASK", NoId, EmptyBag,
           Task("t1", "SYNC_DATA", 0, [k \in {"note"} |-> "v1"]), NoData)}

AutoRefreshStorage == [k \in {"autoRefresh"} |-> Bool(TRUE)]

InitSync == Is(Loaded(AutoRefreshStorage, <<TRUE>>, FALSE, 0))

NextSync ==
  \/ OnMessage1(SyncInputs, MaxSchedRequests)
  \/ OnMessage2
  \/ OnMessage3
  \/ ThenSendResponse
  \/ ScheduleArm
  \/ InitializeAnswer
  \/ TaskStorageAnswer
  \/ Alarm
  \/ AutoRefreshAnswer
  \/ TabsAnswer

SpecSync == InitSync /\ [][NextSync]_vars

\* one notification under two updates with different options, the clock
\* moving
MessageBag == [k \in {"message"} |-> "m2"]

UpdateInputs ==
  {Request("SHOW_NOTIFICATION", "n1", ClickBag, NoTask, NoData),
   Request("UPDATE_NOTIFICATION", "n1", TitleBag, NoTask, NoData),
   Request("UPDATE_NOTIFICATION", "n1", MessageBag, NoTask, NoData)}

InitUpdate == Is(Loaded(EmptyStorage, <<>>, FALSE, 0))

NextUpdate ==
  \/ OnMessage1(UpdateInputs, MaxRequests)
  \/ OnMessage2
  \/ OnMessage3
  \/ ThenSendResponse
  \/ ShowNotificationAnswer
  \/ UpdateNotificationAnswer
  \/ Tick

SpecUpdate == InitUpdate /\ [][NextUpdate]_vars

\* a signed-in user: logout requests, a new sign-in and the session
\* validity check, before and after the session has expired
SessionExpiry == 5

SessionStorage(token, expiry) ==
  [k \in {"authToken", "userData", "sessionToken", "sessionExpiry", "theme"} |->
     CASE k = "authToken" -> Str("tok")
       [] k = "userData" -> Obj([f \in {"name"} |-> "u1"])
       [] k = "sessionToken" -> Str(token)
       [] k = "sessionExpiry" -> Num(expiry)
       [] OTHER -> Str("dark")]

\* a session, a session whose token has been emptied, a session stored
\* with expiry 0, and no session
SessionStorages ==
  {SessionStorage("s1", SessionExpiry),
   SessionStorage("", SessionExpiry),
   SessionStorage("s1", 0),
   Restrict(SessionStorage("s1", SessionExpiry), {"authToken", "userData", "theme"}),
   Restrict(SessionStorage("s1", SessionExpiry), {"authToken", "sessionExpiry", "theme"})}

FreshSession ==
  [k \in {"sessionToken", "sessionExpiry"} |->
     IF k = "sessionToken" THEN Str("s2") ELSE Num(SessionExpiry + 100)]

SessionInputs ==
  {Plain("logoutUser"),
   Request("saveUserSettings", NoId, EmptyBag, NoTask, Data(FreshSession))}

InitSession ==
  \E st \in SessionStorages, t \in {SessionExpiry - 2, SessionExpiry, SessionExpiry + 5} :
    Is(Loaded(st, <<TRUE, FALSE>>, FALSE, t))

NextSession ==
  \/ OnMessage1(SessionInputs, MaxRouterRequests)
  \/ OnMessage2
  \/ OnMessage3
  \/ InitializeAnswer
  \/ TaskStorageAnswer
  \/ ScheduleArm
  \/ LogoutAnswer
  \/ SettingsAnswer
  \/ TabsAnswer
  \/ SessionCheck
  \/ SessionAnswer

SpecSession == InitSession /\ [][NextSession]_vars

\* one call of retryWithBackoff with every number of attempts up to the
\* bound and the default, an fn that resolves or rejects at each call
MaxRetryAttempts == 3
MaxRetryDelay == 2

FnOutcomes == {Resolved("v1"), Resolved("v2"), Rejected("e1"), Rejected("e2")}

InitRetry == Is(Unloaded(EmptyStorage, <<>>, FALSE, 0))

RetryStart ==
  RetryCall((0..MaxRetryAttempts) \cup {DefaultMaxAttempts},
            (1..MaxRetryDelay) \cup {DefaultDelay})

FnSettle == FnSettles(FnOutcomes)

NextRetry ==
  \/ RetryStart
  \/ FnSettle
  \/ WaitElapses

\* fn terminates at every call and the timers of the waits fire
SpecRetry ==
  InitRetry /\ [][NextRetry]_vars /\ WF_vars(FnSettle) /\ WF_vars(WaitElapses)

\* a recurring task whose timer fires again before the execution of the
\* firing before has finished
MaxOverlapFirings == 2

InitOverlap == Is(Loaded(EmptyStorage, <<>>, FALSE, 0))

NextOverlap ==
  \/ OnMessage1({Request("SCHEDULE_TASK", NoId, EmptyBag, SyncTask, NoData)}, MaxSchedRequests)
  \/ OnMessage2
  \/ OnMessage3
  \/ ThenSendResponse
  \/ ScheduleArm
  \/ InitializeAnswer
  \/ TaskStorageAnswer
  \/ TimerFires(MaxOverlapFirings)

SpecOverlap == InitOverlap /\ [][NextOverlap]_vars

\* schedule requests for every action name over a storage with and without
\* an item whose value is null; every turn that can run does run in the end
\* (the event loop handles every queued answer, every platform call is
\* answered)
LiveInputs ==
  {Request("SCHEDULE_TASK", NoId, EmptyBag, Task("t1", a, 1000, EmptyBag), NoData) :
     a \in {"SYNC_DATA", "CHECK_STATUS", "CLEANUP_CACHE", "REFRESH_TOKEN", "LATER_ACTION"}}
  \cup {Plain("SCHEDULE_TASK")}

InitLive ==
  \E st \in {TokenStorage, NullBag} : Is(Loaded(st, <<TRUE>>, FALSE, 0))

NextLive ==
  \/ OnMessage1(LiveInputs, MaxSchedRequests)
  \/ OnMessage2
  \/ OnMessage3
  \/ ThenSendResponse
  \/ ScheduleArm
  \/ InitializeAnswer
  \/ TaskStorageAnswer
  \/ TabsAnswer

SpecLive ==
  /\ InitLive
  /\ [][NextLive]_vars
  /\ WF_vars(OnMessage2)
  /\ WF_vars(OnMessage3)
  /\ WF_vars(ThenSendResponse)
  /\ WF_vars(ScheduleArm)
  /\ WF_vars(InitializeAnswer)
  /\ WF_vars(TaskStorageAnswer)
  /\ WF_vars(TabsAnswer)

\* ------------------------------------------------------- claims
NotifFns == {"show", "update", "clear", "clearAll"}

\* no notification operation is in flight and no platform event is pending
NotifQuiet ==
  /\ inbox["notifications"] = <<>>
  /\ \A c \in DOMAIN calls : calls[c].fn \notin NotifFns

LastReply(r) == requests[r].replies[Len(requests[r].replies)]

\* the step handles the answer at the head of a channel for a call at pc
Answered(chan, pc) ==
  /\ HeadIs(chan, "reply", {pc})
  /\ inbox'[chan] = Tail(inbox[chan])

\* the step is the arrival of a request for the action
Arrives(action) ==
  /\ Len(requests') = Len(requests) + 1
  /\ ~requests'[Len(requests')].req.null
  /\ requests'[Len(requests')].req.action = action

\* C1: for every task id at most one live interval timer created by
\* scheduleBackgroundTask exists at any time.
C1_OneTimerPerId ==
  \A t1 \in timers, t2 \in timers : t1.id = t2.id => t1 = t2

\* C2: sendResponse is called at most once for a request, all listeners
\* counted.
C2_AtMostOneReply ==
  \A r \in 1..Len(requests) : Len(requests[r].replies) <= 1

\* the action names whose handler is asynchronous, each with the listener
\* that owns the handler
C4Async(l) ==
  CASE l = 1 -> {"SHOW_NOTIFICATION", "UPDATE_NOTIFICATION", "CLEAR_NOTIFICATION",
                 "CLEAR_ALL_NOTIFICATIONS", "SCHEDULE_TASK"}
    [] l = 2 -> {"sendEmail"}
    [] OTHER -> {"fetchPortalData", "saveUserSettings", "getUserSettings", "logoutUser"}

ListenerOf(fn) ==
  IF fn \in {"show", "update", "clear", "clearAll", "schedule"} THEN 1
  ELSE IF fn = "email" THEN 2 ELSE 3

C5_NoExceptionEscapes ==
  /\ [](\A r \in 1..Len(requests) : \A l \in 1..3 : requests[r].ret[l] # "threw")
  /\ [][\A cid \in DOMAIN calls :
         (calls[cid].pc \in {"resolved", "rejected"} /\ cid \notin DOMAIN calls')
         => LET rs == requests'[calls[cid].req].replies
            IN rs[Len(rs)].success = IF calls[cid].pc = "resolved" THEN "yes" ELSE "no"]_vars

KnownActions ==
  {"SHOW_NOTIFICATION", "UPDATE_NOTIFICATION", "CLEAR_NOTIFICATION",
   "CLEAR_ALL_NOTIFICATIONS", "GET_ACTIVE_NOTIFICATIONS", "SCHEDULE_TASK",
   "GET_EXTENSION_STATUS", "sendEmail", "getOffscreenStatus", "fetchPortalData",
   "saveUserSettings", "getUserSettings", "logoutUser"}

Unknown(q) == ~q.null /\ q.action \notin KnownActions

\* C6: a request whose action no listener handles has, as soon as the
\* listener that received it has returned, a reply {success: false, error:
\* 'Unknown action'} sent before that return, it gets no other reply, and
\* the turns that handle it change neither the registry, nor the scheduler,
\* nor storage, and start nothing.
C6_UnknownActionAnswered ==
  /\ [](\A r \in 1..Len(requests) :
          (Unknown(requests[r].req) /\ requests[r].stage >= 2)
          => /\ Len(requests[r].replies) >= 1
             /\ requests[r].replies[1].by = 1
             /\ \A i \in 1..Len(requests[r].replies) :
                  /\ requests[r].replies[i].success = "no"
                  /\ requests[r].replies[i].error = "Unknown action"
                  /\ requests[r].replies[i].sync)
  /\ [][(\/ /\ Len(requests') = Len(requests) + 1
             /\ Unknown(requests'[Len(requests')].req)
          \/ \E r \in 1..Len(requests) :
               /\ Unknown(requests[r].req)
               /\ requests'[r].stage # requests[r].stage)
        => UNCHANGED <<activeNotifications, platformNotifs, scheduledTasks, timers,
                       storage, calls, inbox>>]_vars

\* an unknown action has been through all the listeners while the registry
\* holds a record
C6_Witness ==
  /\ activeNotifications # <<>>
  /\ \E r \in 1..Len(requests) :
       Unknown(requests[r].req) /\ requests[r].stage = 4

\* C3: an id is in activeNotifications if and only if the platform shows a
\* notification with that id; the registry never keeps a record of a
\* notification that is closed.  Stated for the states in which no
\* notification operation is in flight and no platform event waits, where
\* the claim asks the least.
C3_RegistryMatchesPlatform ==
  NotifQuiet => Ids(activeNotifications) = platformNotifs

\* C7: when the platform create of showNotification fails, the
\* SHOW_NOTIFICATION request is answered by its handler with success false,
\* not with success true.
C7_FailedCreateReported ==
  [][\A cid \in DOMAIN calls :
       (/\ calls[cid].fn = "show"
        /\ calls[cid].log = "error"
        /\ cid \notin DOMAIN calls')
       => LET rs == requests'[calls[cid].req].replies
          IN rs[Len(rs)].success = "no"]_vars

\* C8: a showNotification whose platform create fails leaves
\* activeNotifications as it is, both up to its await and after it: no
\* record is added for its id and a record its id has is not modified.
C8_FailedCreateKeepsRegistry ==
  [][/\ Arrives("SHOW_NOTIFICATION") => activeNotifications' = activeNotifications
     /\ (/\ Answered("notifications", "awaitCreate")
         /\ ~Head(inbox["notifications"]).ok)
        => activeNotifications' = activeNotifications]_vars

\* a create has failed for an id that has a record, and the record is there
C8_Witness ==
  \E c \in DOMAIN calls :
    /\ calls[c].fn = "show"
    /\ calls[c].log = "error"
    /\ Has(activeNotifications, calls[c].id)

\* C9: updateNotification for an id that is not in activeNotifications
\* issues no platform call, leaves activeNotifications as it is and returns
\* after its warning; the request is then answered with success true.
C9_UpdateOfAbsentIsNoOp ==
  [][/\ (/\ Arrives("UPDATE_NOTIFICATION")
         /\ ~Has(activeNotifications, requests'[Len(requests')].req.id))
        => /\ inbox' = inbox
           /\ platformNotifs' = platformNotifs
           /\ activeNotifications' = activeNotifications
           /\ \E c \in (DOMAIN calls') \ (DOMAIN calls) :
                calls'[c].pc = "resolved" /\ calls'[c].log = "warn"
     /\ \A cid \in DOMAIN calls :
          (/\ calls[cid].fn = "update"
           /\ calls[cid].log = "warn"
           /\ cid \notin DOMAIN calls')
          => /\ activeNotifications' = activeNotifications
             /\ LET rs == requests'[calls[cid].req].replies
                IN rs[Len(rs)].success = "yes"]_vars

\* an update of an absent id has returned while another id has a record
C9_Witness ==
  \E c \in DOMAIN calls :
    /\ calls[c].fn = "update"
    /\ calls[c].log = "warn"
    /\ ~Has(activeNotifications, calls[c].id)
    /\ activeNotifications # <<>>

\* a whole clearNotification(id), nothing else running in between, with
\* the platform answering ok
ClearOnce(W, id, ok) ==
  LET W1 == clearNotificationStart(W, 0, id, ok)
      W2 == [W1 EXCEPT !.inbox["notifications"] = SubSeq(@, 1, Len(@) - 1)]
  IN clearNotificationResume(W2, FreeCid(W), ok)

ShowOnce(W, id, options, ok) ==
  LET W1 == showNotificationStart(W, 0, id, options, ok)
      W2 == [W1 EXCEPT !.inbox["notifications"] = SubSeq(@, 1, Len(@) - 1)]
  IN showNotificationResume(W2, FreeCid(W), ok)

\* C11: after showNotification(id, options) has completed and a following
\* clearNotification(id) has completed, activeNotifications holds no record
\* for id, whatever the platform answered to create and to clear.
C11_ShowThenClearLeavesNoRecord ==
  \A id \in NotifIds, ok1 \in BOOLEAN, ok2 \in BOOLEAN :
    ~Has(ClearOnce(ShowOnce(World, id, ClickBag, ok1), id, ok2).activeNotifications, id)

\* C12: when clearAllNotifications completes, the registry is empty, also
\* when a platform clear of its loop has failed; a failed clear of the loop
\* is followed by the clear of the next id the registry holds.
C12_ClearAllSweepsEveryId ==
  [][/\ \A cid \in DOMAIN calls' :
          (/\ calls'[cid].fn = "clearAll"
           /\ calls'[cid].pc = "resolved"
           /\ (cid \notin DOMAIN calls \/ calls[cid].pc # "resolved"))
          => activeNotifications' = <<>>
     /\ (/\ Answered("notifications", "awaitClearAll")
         /\ ~Head(inbox["notifications"]).ok
         /\ calls[Head(inbox["notifications"]).cid].idx < Len(activeNotifications))
        => calls'[Head(inbox["notifications"]).cid].pc = "awaitClearAll"]_vars

\* the step is the onClicked listener handling the click at the head of the
\* notification events: the click is taken and one platform clear is issued
ClickHandled ==
  /\ HeadIs("notifications", "clicked", {})
  /\ Len(inbox'["notifications"]) = Len(inbox["notifications"])
  /\ inbox'["notifications"] # inbox["notifications"]

\* the step is the onClosed listener handling the close at the head of the
\* notification events
CloseHandled ==
  /\ HeadIs("notifications", "closed", {})
  /\ inbox'["notifications"] = Tail(inbox["notifications"])

NewCalls == {c \in DOMAIN calls' : c \notin DOMAIN calls}

\* the turn of the onClicked listener: a NOTIFICATION_ACTION broadcast is
\* started when the registry holds a record for the id with a clickAction,
\* while the record is still there, and nothing is sent to the tabs
\* otherwise; in every case clearNotification(id) is invoked
ClickTurn ==
  ClickHandled =>
    LET id == Head(inbox["notifications"]).id IN
    /\ IF hasClickAction(activeNotifications, id)
       THEN /\ \E c \in NewCalls :
                 /\ calls'[c].fn = "broadcast"
                 /\ calls'[c].id = "NOTIFICATION_ACTION"
            /\ Len(inbox'["tabs"]) = Len(inbox["tabs"]) + 1
            /\ activeNotifications' = activeNotifications
       ELSE /\ inbox'["tabs"] = inbox["tabs"]
            /\ \A c \in NewCalls : calls'[c].fn # "broadcast"
    /\ \E c \in NewCalls :
         /\ calls'[c].fn = "clear"
         /\ calls'[c].id = id
         /\ calls'[c].pc = "awaitClear"

\* C13: on a click the listener's turn is as ClickTurn says, and when the
\* clearNotification(id) it invoked completes, the registry has no record
\* for the id.
C13_ClickBroadcastsThenClears ==
  [][/\ ClickTurn
     /\ (/\ Answered("notifications", "awaitClear")
         /\ calls[Head(inbox["notifications"]).cid].req = 0)
        => ~Has(activeNotifications', Head(inbox["notifications"]).id)]_vars

\* the turn of the onClicked listener alone, which the code keeps
ClickTurnHolds == [][ClickTurn]_vars

\* an activation but for the position of its iterator, which follows the
\* Map and is no effect of the program
SameButIterator(c, d) == [c EXCEPT !.idx = 0] = [d EXCEPT !.idx = 0]

\* C14: the onClosed listener removes the record of the closed id from
\* activeNotifications and does nothing else: nothing is sent to a tab, no
\* platform call is issued, no activation starts or moves, the records of
\* the other ids, the scheduled tasks, the timers and storage stay.
C14_CloseOnlyRemovesRecord ==
  [][CloseHandled =>
       /\ activeNotifications' =
            MapDelete(activeNotifications, Head(inbox["notifications"]).id)
       /\ \A ch \in Channels \ {"notifications"} : inbox'[ch] = inbox[ch]
       /\ DOMAIN calls' = DOMAIN calls
       /\ \A c \in DOMAIN calls : SameButIterator(calls'[c], calls[c])
       /\ UNCHANGED <<requests, platformNotifs, scheduledTasks, timers, storage,
                      tabs, offscreenCreated, uncaught>>]_vars

\* the close of n1 has been handled while n2 keeps its record, the daily
\* cleanup is scheduled and a tab is there to receive
C14_Witness ==
  /\ lastEvent = [kind |-> "closed", id |-> "n1"]
  /\ ~Has(activeNotifications, "n1")
  /\ Has(activeNotifications, "n2")
  /\ "daily-cleanup" \in DOMAIN scheduledTasks
  /\ Len(tabs) > 0

\* the positions of an activation whose task is being executed
ExecutingPcs == {"syncGet", "syncSet", "cleanupGet", "cleanupRemove", "refreshGet", "stuck"}

\* the step in which the activation cid of scheduleBackgroundTask goes on
\* after `await executeTask()`
Arms(cid) ==
  /\ calls[cid].fn = "schedule"
  /\ calls[cid].pc = "executed"
  /\ (cid \notin DOMAIN calls' \/ calls'[cid].pc # "executed")

\* C15: scheduleBackgroundTask starts the execution of the action once, in
\* the turn of the call, where no timer is armed and the id has no record;
\* it goes on only when that execution has finished, and then starts no
\* second execution; a timer is armed only in that continuation and only
\* for an interval above 0, an interval of 0 leaving timers and records as
\* they are; the SCHEDULE_TASK reply of the handler is sent only after the
\* continuation.
C15_ExecutesOnceThenArms ==
  [][/\ (/\ Arrives("SCHEDULE_TASK")
         /\ requests'[Len(requests')].req.task.present)
        => LET task == requests'[Len(requests')].req.task
               started == {c \in NewCalls : calls'[c].fn = "schedule"}
           IN /\ Cardinality(started) = 1
              /\ \A c \in started :
                   /\ calls'[c].req = Len(requests')
                   /\ calls'[c].id = task.id
                   /\ calls'[c].action = task.action
                   /\ calls'[c].pc \in ExecutingPcs \cup {"executed"}
              /\ timers' \subseteq timers
              /\ task.id \notin DOMAIN scheduledTasks'
     /\ \A cid \in DOMAIN calls :
          (calls[cid].fn = "schedule" /\ calls[cid].pc \in ExecutingPcs)
          => /\ cid \in DOMAIN calls'
             /\ calls'[cid].pc \in ExecutingPcs \cup {"executed"}
     /\ \A cid \in DOMAIN calls :
          Arms(cid)
          => /\ inbox' = inbox
             /\ NewCalls = {}
             /\ storage' = storage
             /\ IF calls[cid].interval > 0
                THEN /\ \E t \in timers' \ timers : t.id = calls[cid].id
                     /\ calls[cid].id \in DOMAIN scheduledTasks'
                ELSE timers' = timers /\ scheduledTasks' = scheduledTasks
     /\ \A t \in timers' \ timers :
          \E cid \in DOMAIN calls :
            Arms(cid) /\ calls[cid].id = t.id /\ calls[cid].interval > 0
     /\ \A r \in 1..Len(requests) :
          (/\ ~requests[r].req.null
           /\ requests[r].req.action = "SCHEDULE_TASK"
           /\ requests[r].req.task.present
           /\ Len(requests'[r].replies) > Len(requests[r].replies)
           /\ requests'[r].replies[Len(requests'[r].replies)].by = 1)
          => \E cid \in DOMAIN calls :
               /\ calls[cid].req = r
               /\ calls[cid].pc = "resolved"
               /\ ~requests'[r].replies[Len(requests'[r].replies)].sync]_vars

\* a one-shot task (interval 0) has been answered by its handler and has
\* left no record, while the daily cleanup (interval above 0) has its timer
C15_Witness ==
  /\ \E t \in timers : t.id = "daily-cleanup" /\ t.interval > 0
  /\ \E r \in 1..Len(requests) :
       /\ requests[r].req.action = "SCHEDULE_TASK"
       /\ requests[r].req.task.present
       /\ requests[r].req.task.interval = 0
       /\ requests[r].req.task.id \notin DOMAIN scheduledTasks
       /\ \E i \in 1..Len(requests[r].replies) :
            requests[r].replies[i].by = 1 /\ requests[r].replies[i].success = "yes"

\* C16: an immediate execution that throws is swallowed and
\* scheduleBackgroundTask goes on to arm the timer and to resolve: no
\* activation of scheduleBackgroundTask is left waiting for an execution
\* that has thrown.
C16_ThrowingExecutionStillArms ==
  \A c \in DOMAIN calls : calls[c].fn = "schedule" => calls[c].pc # "stuck"

\* the step is a call of cancelScheduledTask(id) that changes something
Cancels(id) == World' = cancelScheduledTask(World, id) /\ World' # World

\* the step is a firing of the timer t
Fires(t) == World' = timerFire(World, t)

\* C17: cancelScheduledTask(id) returns true exactly when a task for id
\* exists, that is when a timer runs for id; when it has returned no timer
\* runs for id and scheduledTasks has no record for id, and the timers and
\* records of the other ids are as they were.
C17_CancelStopsTheTask ==
  [][\A id \in SchedTaskIds :
       Cancels(id)
       => /\ cancelScheduledTaskReturns(World, id) <=> (\E t \in timers : t.id = id)
          /\ \A t \in timers' : t.id # id
          /\ id \notin DOMAIN scheduledTasks'
          /\ \A t \in timers : t.id # id => t \in timers'
          /\ timers' \subseteq timers
          /\ \A k \in (DOMAIN scheduledTasks) \ {id} :
               k \in DOMAIN scheduledTasks' /\ scheduledTasks'[k] = scheduledTasks[k]
          /\ (DOMAIN scheduledTasks') \subseteq (DOMAIN scheduledTasks)]_vars

\* C18: no firing begins for an id that has been cancelled and for which
\* scheduleBackgroundTask has not been called since; a cancel leaves the
\* firings in flight as they are.
C18_NoFiringAfterCancel ==
  [][/\ \A t \in timers : Fires(t) => t.id \notin cancelled
     /\ \A id \in SchedTaskIds : Cancels(id) => calls' = calls /\ inbox' = inbox]_vars

\* C19: a firing, also one whose action fails, leaves the schedule intact:
\* nothing escapes the timer callback, and in no turn of the firing does a
\* timer or a record of scheduledTasks change, so the timer stays live.
C19_FailingFiringKeepsSchedule ==
  [][/\ \A t \in timers :
          Fires(t) => /\ timers' = timers
                      /\ scheduledTasks' = scheduledTasks
                      /\ uncaught' = uncaught
     /\ \A cid \in DOMAIN calls :
          (/\ calls[cid].fn = "fire"
           /\ (cid \notin DOMAIN calls' \/ calls'[cid] # calls[cid]))
          => timers' = timers /\ scheduledTasks' = scheduledTasks]_vars

\* the action of a firing has thrown and the timer and the record of its id
\* are in place
C19_Witness ==
  \E c \in DOMAIN calls :
    /\ calls[c].fn = "fire"
    /\ calls[c].pc = "stuck"
    /\ calls[c].id \in DOMAIN scheduledTasks
    /\ \E t \in timers :
         t.id = calls[c].id /\ t.handle = scheduledTasks[calls[c].id].intervalId

TaskActions == {"SYNC_DATA", "CHECK_STATUS", "CLEANUP_CACHE", "REFRESH_TOKEN"}

\* C20: the execution of a task whose action is none of the four writes
\* nothing to storage, issues no platform call, sends no message and
\* throws nothing, in the immediate execution and in a firing; the
\* SCHEDULE_TASK request of such a task is answered by its handler with
\* success true, and its timer is armed.
C20_UnknownTaskActionIsNoOp ==
  [][/\ (/\ Arrives("SCHEDULE_TASK")
         /\ requests'[Len(requests')].req.task.present
         /\ requests'[Len(requests')].req.task.action \notin TaskActions)
        => /\ storage' = storage
           /\ inbox' = inbox
           /\ uncaught' = uncaught
           /\ \A c \in NewCalls : calls'[c].fn = "schedule" /\ calls'[c].pc = "executed"
     /\ \A t \in timers :
          (Fires(t) /\ t.action \notin TaskActions)
          => /\ storage' = storage
             /\ inbox' = inbox
             /\ uncaught' = uncaught
             /\ calls' = calls
     /\ \A cid \in DOMAIN calls :
          (Arms(cid) /\ calls[cid].action \notin TaskActions)
          => /\ cid \in DOMAIN calls' => calls'[cid].pc = "resolved"
             /\ calls[cid].interval > 0 => \E t \in timers' \ timers : t.id = calls[cid].id
     /\ \A r \in 1..Len(requests) :
          (/\ ~requests[r].req.null
           /\ requests[r].req.action = "SCHEDULE_TASK"
           /\ requests[r].req.task.present
           /\ requests[r].req.task.action \notin TaskActions
           /\ Len(requests'[r].replies) > Len(requests[r].replies)
           /\ requests'[r].replies[Len(requests'[r].replies)].by = 1)
          => requests'[r].replies[Len(requests'[r].replies)].success = "yes"]_vars

\* a task with an action that is none of the four has been answered by its
\* handler and its timer has fired
C20_Witness ==
  /\ firings > 0
  /\ \E t \in timers : t.action \notin TaskActions
  /\ \E r \in 1..Len(requests) :
       /\ requests[r].req.action = "SCHEDULE_TASK"
       /\ requests[r].req.task.present
       /\ requests[r].req.task.action \notin TaskActions
       /\ \E i \in 1..Len(requests[r].replies) :
            requests[r].replies[i].by = 1 /\ requests[r].replies[i].success = "yes"

\* the step is the callback of the chrome.tabs.query of a broadcast
QueryHandled ==
  /\ HeadIs("tabs", "reply", {"query"})
  /\ Head(inbox["tabs"]).cid \notin DOMAIN calls'

\* the step is the settling of one chrome.tabs.sendMessage
SendHandled ==
  /\ HeadIs("tabs", "reply", {"sent"})
  /\ Head(inbox["tabs"]).cid \notin DOMAIN calls'

\* C21: in a broadcast every open tab gets a delivery attempt, with or
\* without a receiver, whatever the tabs before it are; a delivery that
\* fails surfaces nowhere: no exception escapes, no activation rejects or
\* changes, no reply is sent, and the deliveries still pending stay.
C21_FailedDeliveryIsIsolated ==
  /\ [][/\ QueryHandled
           => /\ \A i \in 1..Len(tabs) :
                   \E c \in NewCalls :
                     /\ calls'[c].fn = "send"
                     /\ calls'[c].idx = i
                     /\ calls'[c].id = calls[Head(inbox["tabs"]).cid].id
                     /\ \E j \in 1..Len(inbox'["tabs"]) :
                          inbox'["tabs"][j].cid = c /\ inbox'["tabs"][j].ok = tabs[i]
              /\ uncaught' = uncaught
        /\ (SendHandled /\ ~Head(inbox["tabs"]).ok)
           => /\ inbox' = [inbox EXCEPT !["tabs"] = Tail(@)]
              /\ uncaught' = uncaught
              /\ requests' = requests
              /\ \A c \in (DOMAIN calls) \ {Head(inbox["tabs"]).cid} :
                   c \in DOMAIN calls' /\ calls'[c] = calls[c]]_vars
  /\ [](\A c \in DOMAIN calls :
          calls[c].fn \in {"broadcast", "send"} => calls[c].pc \notin {"rejected", "stuck"})

\* the delivery to the first tab, which has no receiver, has failed and has
\* been handled, and the delivery to the second tab has been attempted
C21_Witness ==
  /\ Len(tabs) = 2 /\ ~tabs[1] /\ tabs[2]
  /\ \E c \in DOMAIN calls :
       /\ calls[c].fn = "send"
       /\ calls[c].idx = 2
       /\ \A d \in DOMAIN calls :
            calls[d].fn \in {"broadcast", "send"} => calls[d].idx = 2

\* the delivery attempts that have not settled
SendCalls(cs) == {c \in DOMAIN cs : cs[c].fn = "send"}

\* C22: the callback of a broadcast starts at most one delivery per tab,
\* each to a tab of the query result; no other turn starts a delivery or
\* touches one that is pending, so a delivery that has settled, failed or
\* not, is not attempted again; every pending delivery has exactly one
\* answer to come.
C22_AtMostOneDeliveryPerTab ==
  /\ [][IF QueryHandled
        THEN LET new == {c \in NewCalls : calls'[c].fn = "send"} IN
             /\ \A c1 \in new, c2 \in new : calls'[c1].idx = calls'[c2].idx => c1 = c2
             /\ \A c \in new : calls'[c].idx \in 1..Len(tabs)
             /\ \A c \in SendCalls(calls) : c \in DOMAIN calls' /\ calls'[c] = calls[c]
        ELSE \A c \in SendCalls(calls') : c \in DOMAIN calls /\ calls'[c] = calls[c]]_vars
  /\ [](\A c \in SendCalls(calls) :
          Cardinality({j \in 1..Len(inbox["tabs"]) : inbox["tabs"][j].cid = c}) = 1)

\* a logout has been answered and its userLoggedOut broadcast is over: the
\* deliveries to both tabs, one of them without a receiver, have settled
C22_Witness ==
  /\ Len(tabs) = 2 /\ \E i \in 1..2 : ~tabs[i]
  /\ inbox["tabs"] = <<>>
  /\ \A c \in DOMAIN calls : calls[c].fn \notin {"broadcast", "send"}
  /\ \E r \in 1..Len(requests) :
       /\ requests[r].req.action = "logoutUser"
       /\ \E i \in 1..Len(requests[r].replies) :
            requests[r].replies[i].by = 3 /\ requests[r].replies[i].success = "yes"

\* the script has just been evaluated: its initializeBackgroundTasks waits
\* for the settings and nothing else has run
JustLoaded ==
  /\ ~startupFired
  /\ firings = 0
  /\ DOMAIN calls # {}
  /\ \A c \in DOMAIN calls : calls[c].fn = "init"

\* no initializeBackgroundTasks waits for its settings and every
\* scheduleBackgroundTask it started has resolved or can go no further
InitializationOver ==
  \A c \in DOMAIN calls :
    /\ calls[c].fn # "init"
    /\ (calls[c].fn = "schedule" /\ calls[c].req = 0) => calls[c].pc = "stuck"

SettingSet(key) ==
  /\ "extensionSettings" \in DOMAIN storage
  /\ storage["extensionSettings"].t = "obj"
  /\ Lookup(storage["extensionSettings"].o, key, "false") = "true"

\* C23: when the script has just been loaded scheduledTasks is empty and no
\* timer runs; once the initialization is over a timer runs for
\* 'daily-cleanup' with period 24 h, action CLEANUP_CACHE and maxAge 7
\* days, a timer runs for 'auto-sync' exactly when enableAutoSync is stored
\* set, and one for 'status-check' exactly when enableStatusCheck is.
C23_TimersRearmedAfterRestart ==
  /\ JustLoaded => (DOMAIN scheduledTasks = {} /\ timers = {})
  /\ InitializationOver
     => /\ \E t \in timers :
             /\ t.id = "daily-cleanup"
             /\ t.action = "CLEANUP_CACHE"
             /\ t.interval = DailyCleanupInterval
             /\ Lookup(t.data, "maxAge", 0) = DefaultMaxAge
        /\ (\E t \in timers : t.id = "auto-sync") <=> SettingSet("enableAutoSync")
        /\ (\E t \in timers : t.id = "status-check") <=> SettingSet("enableStatusCheck")

\* the entries whose timestamp is older than t - m
Expired(items, m, t) ==
  {k \in DOMAIN items :
     /\ items[k].t = "obj"
     /\ "timestamp" \in DOMAIN items[k].o
     /\ items[k].o["timestamp"] < t - m}

\* the step is the storage callback of the cleanupCache of the activation cid
CleanupGot(cid) ==
  /\ HeadIs("storage", "reply", {"cleanupGet"})
  /\ Head(inbox["storage"]).cid = cid
  /\ (cid \notin DOMAIN calls' \/ calls'[cid].pc # "cleanupGet")

\* C24: the storage callback of an execution of CLEANUP_CACHE with maxAge
\* m leaves in storage the entries that were there but for those whose
\* timestamp is older than now - m (the platform carrying out the removal
\* it is asked for), and the execution goes on; a scheduleBackgroundTask of
\* CLEANUP_CACHE with interval 86400000 that goes on after its execution
\* arms a timer with that period for its id.
C24_CleanupRemovesExpiredOnly ==
  [][\A cid \in DOMAIN calls :
       /\ CleanupGot(cid)
          => LET m == Lookup(calls[cid].opts, "maxAge", DefaultMaxAge)
                 old == Expired(storage, m, now)
                 last == inbox'["storage"][Len(inbox'["storage"])]
             IN /\ cid \in DOMAIN calls' => calls'[cid].pc \in {"cleanupRemove", "executed"}
                /\ DOMAIN storage' \subseteq DOMAIN storage
                /\ \A k \in DOMAIN storage' : storage'[k] = storage[k]
                /\ \A k \in (DOMAIN storage) \ old : k \in DOMAIN storage'
                /\ (old # {} /\ cid \in DOMAIN calls' /\ calls'[cid].pc = "cleanupRemove"
                    /\ last.cid = cid /\ last.ok)
                   => \A k \in old : k \notin DOMAIN storage'
                /\ old # {} => (cid \in DOMAIN calls' /\ calls'[cid].pc = "cleanupRemove")
       /\ (/\ Arms(cid)
           /\ calls[cid].action = "CLEANUP_CACHE"
           /\ calls[cid].interval = DailyCleanupInterval)
          => \E t \in timers' \ timers :
               t.id = calls[cid].id /\ t.interval = DailyCleanupInterval]_vars

\* the reply of the first listener to the request r
ReplyOf1(reqs, r) ==
  reqs[r].replies[CHOOSE i \in 1..Len(reqs[r].replies) : reqs[r].replies[i].by = 1]

InstallHandled(reason) ==
  installEvent.reason = "none" /\ installEvent'.reason = reason

SameOn(keys, f, g) ==
  \A k \in keys : (k \in DOMAIN f <=> k \in DOMAIN g) /\ (k \in DOMAIN f => f[k] = g[k])

\* C26: handling an install event issues one write of the five default
\* settings, which puts them in storage and leaves the other keys; handling
\* an update issues none and leaves storage as it is, and so does the turn
\* of a browser startup; no other turn writes the defaults or changes a
\* stored value of their keys.
C26_DefaultsSeededOnInstallOnly ==
  [][/\ InstallHandled("install")
        => /\ installEvent'.defaultsSet = installEvent.defaultsSet + 1
           /\ installEvent'.ok
              => /\ \A k \in DOMAIN DefaultSettings :
                      k \in DOMAIN storage' /\ storage'[k] = DefaultSettings[k]
                 /\ DOMAIN storage' = (DOMAIN storage) \cup (DOMAIN DefaultSettings)
           /\ SameOn((DOMAIN storage) \ (DOMAIN DefaultSettings), storage, storage')
     /\ ~InstallHandled("install")
        => /\ installEvent'.defaultsSet = installEvent.defaultsSet
           /\ SameOn(DOMAIN DefaultSettings, storage, storage')
     /\ (InstallHandled("update") \/ (~startupFired /\ startupFired'))
        => storage' = storage]_vars

\* the defaults have been written once on install, and the browser startup
\* and the initialization that followed have left them
C26_Witness ==
  /\ installEvent = [reason |-> "install", defaultsSet |-> 1, ok |-> TRUE]
  /\ startupFired
  /\ \A k \in DOMAIN DefaultSettings : k \in DOMAIN storage /\ storage[k] = DefaultSettings[k]
  /\ \E t \in timers : t.id = "daily-cleanup"

\* the step handles a failed storage answer for an activation of one of
\* the handlers
StorageFailed(cid, fns) ==
  /\ Len(inbox["storage"]) > 0
  /\ Head(inbox["storage"]).kind = "reply"
  /\ Head(inbox["storage"]).cid = cid
  /\ ~Head(inbox["storage"]).ok
  /\ calls[cid].fn \in fns
  /\ inbox'["storage"] = Tail(inbox["storage"])

\* C27: a failed storage answer for saveUserSettings, getUserSettings or
\* logoutUser is answered in its callback with success false; the handler
\* of a SCHEDULE_TASK request whose action has met a failed storage write
\* answers with success false.
C27_StorageFailureReported ==
  [][\A cid \in DOMAIN calls :
       /\ StorageFailed(cid, {"save", "getSettings", "logout"})
          => LET rs == requests'[calls[cid].req].replies
             IN /\ Len(rs) = Len(requests[calls[cid].req].replies) + 1
                /\ rs[Len(rs)].by = 3
                /\ rs[Len(rs)].success = "no"
       /\ (/\ calls[cid].fn = "schedule"
           /\ calls[cid].req # 0
           /\ calls[cid].log = "unchecked"
           /\ calls[cid].pc \in {"resolved", "rejected"}
           /\ cid \notin DOMAIN calls')
          => LET rs == requests'[calls[cid].req].replies
             IN rs[Len(rs)].success = "no"]_vars

\* the flexPortalData aggregate of a storage
Aggregate(st) ==
  IF "flexPortalData" \in DOMAIN st /\ st["flexPortalData"].t = "obj"
  THEN st["flexPortalData"].o ELSE EmptyBag

\* the step is the storage callback of syncData in which the activation cid
\* writes the aggregate, and the platform carries the write out
SyncWrites(cid) ==
  /\ HeadIs("storage", "reply", {"syncGet"})
  /\ Head(inbox["storage"]).cid = cid
  /\ cid \in DOMAIN calls' /\ calls'[cid].pc = "syncSet"
  /\ inbox'["storage"][Len(inbox'["storage"])].ok

\* C28: the write of an execution of SYNC_DATA with payload d leaves in the
\* stored aggregate every key of d with d's value, lastSync with the time
\* of the write, and every other key that was stored with the value it
\* had, whatever other executions of SYNC_DATA run beside it.
C28_SyncKeepsOtherKeys ==
  [][\A cid \in DOMAIN calls :
       SyncWrites(cid)
       => LET d == calls[cid].opts
              before == Aggregate(storage)
              after == Aggregate(storage')
          IN /\ \A k \in DOMAIN d : k \in DOMAIN after /\ after[k] = d[k]
             /\ "lastSync" \in DOMAIN after /\ after["lastSync"] = now
             /\ \A k \in (DOMAIN before) \ ((DOMAIN d) \cup {"lastSync"}) :
                  k \in DOMAIN after /\ after[k] = before[k]]_vars

\* the step is the continuation of the updateNotification cid after a
\* platform update that succeeded, the id having a record
UpdateWrites(cid) ==
  /\ Answered("notifications", "awaitUpdate")
  /\ Head(inbox["notifications"]).cid = cid
  /\ Head(inbox["notifications"]).ok
  /\ calls[cid].req # 0
  /\ Has(activeNotifications, calls[cid].id)

\* C29: the write of an updateNotification is made on the record as it is
\* when the write is made: the options stored afterwards are the options
\* stored just before, overridden by the options of the call, so that of
\* two overlapping updates of one id that both complete the options of
\* both are stored.
C29_UpdatesOfOneIdCompose ==
  [][\A cid \in DOMAIN calls :
       UpdateWrites(cid)
       => /\ Has(activeNotifications', calls[cid].id)
          /\ Get(activeNotifications', calls[cid].id).options =
               Merge(Get(activeNotifications, calls[cid].id).options,
                     requests[calls[cid].req].req.options)]_vars

\* the step is the continuation of the showNotification cid after a
\* platform create that succeeded
ShowWrites(cid) ==
  /\ Answered("notifications", "awaitCreate")
  /\ Head(inbox["notifications"]).cid = cid
  /\ Head(inbox["notifications"]).ok
  /\ calls[cid].req # 0

\* C30: after a create that succeeded the registry holds for the id a
\* record with the time of the write as creation timestamp, whose options
\* have the keys of the defaults and of the caller, every key of the caller
\* with the caller's value, requireInteraction, icon and badge included,
\* and every other key of the defaults with its default.
C30_ShowMergesOverDefaults ==
  [][\A cid \in DOMAIN calls :
       ShowWrites(cid)
       => LET own == requests[calls[cid].req].req.options
              id == calls[cid].id
          IN /\ Has(activeNotifications', id)
             /\ Get(activeNotifications', id).createdAt = now
             /\ LET stored == Get(activeNotifications', id).options IN
                /\ DOMAIN stored = (DOMAIN own) \cup {"icon", "badge", "requireInteraction"}
                /\ \A k \in DOMAIN own : stored[k] = own[k]
                /\ "icon" \notin DOMAIN own => stored["icon"] = "icons/icon-48x48.png"
                /\ "badge" \notin DOMAIN own => stored["badge"] = "icons/icon-badge-32x32.png"
                /\ "requireInteraction" \notin DOMAIN own
                   => stored["requireInteraction"] = "false"]_vars

\* a notification shown with requireInteraction, icon and badge of its own
\* has its record with the caller's values, next to one shown without them
\* that has the defaults
C30_Witness ==
  /\ Has(activeNotifications, "n2")
  /\ Get(activeNotifications, "n2").options["requireInteraction"] = "true"
  /\ Get(activeNotifications, "n2").options["icon"] = "icons/alert.png"
  /\ Get(activeNotifications, "n2").options["badge"] = "icons/alert-badge.png"
  /\ Has(activeNotifications, "n1")
  /\ Get(activeNotifications, "n1").options["badge"] = "icons/icon-badge-32x32.png"
  /\ Get(activeNotifications, "n1").options["requireInteraction"] = "false"
  /\ \E r \in 1..Len(requests) :
       /\ requests[r].req.action = "SHOW_NOTIFICATION"
       /\ requests[r].req.options = UrgentBag
       /\ \E i \in 1..Len(requests[r].replies) : requests[r].replies[i].by = 1

\* the listener whose code handles the action
Owner(action) ==
  IF action \in Async1 \cup Sync1 THEN 1
  ELSE IF action \in {"sendEmail", "getOffscreenStatus"} THEN 2 ELSE 3

\* C31: the first reply sent for a request whose action a listener handles
\* is sent by the code of that listener's handler and is not the 'Unknown
\* action' reply.
C31_FirstReplyIsTheHandlers ==
  \A r \in 1..Len(requests) :
    (/\ ~requests[r].req.null
     /\ requests[r].req.action \in KnownActions
     /\ Len(requests[r].replies) >= 1)
    => /\ requests[r].replies[1].by = Owner(requests[r].req.action)
       /\ requests[r].replies[1].error # "Unknown action"

\* C32: the continuation of an updateNotification adds no id to the
\* registry: when the record of its id has been removed while it was
\* suspended on the platform update, the id is absent after it as well.
C32_UpdateNeverAddsAnId ==
  [][\A cid \in DOMAIN calls :
       (/\ Answered("notifications", "awaitUpdate")
        /\ Head(inbox["notifications"]).cid = cid
        /\ ~Has(activeNotifications, calls[cid].id))
       => ~Has(activeNotifications', calls[cid].id)]_vars

\* C33: every live timer is the intervalId of the scheduledTasks record of
\* its task id, and every record has an interval above 0 and a live timer;
\* so every timer can be stopped through the record of its id.
C33_TimersAreTheRecorded ==
  /\ \A t \in timers :
       /\ t.id \in DOMAIN scheduledTasks
       /\ scheduledTasks[t.id].intervalId = t.handle
  /\ \A id \in DOMAIN scheduledTasks :
       /\ scheduledTasks[id].interval > 0
       /\ \E t \in timers : t.handle = scheduledTasks[id].intervalId /\ t.id = id

\* the step is the continuation of the updateNotification cid after its
\* platform update has settled
UpdateSettles(cid) ==
  /\ Answered("notifications", "awaitUpdate")
  /\ Head(inbox["notifications"]).cid = cid

\* C34: an updateNotification that finds a record for its id takes the
\* creation timestamp of that record and the stored options overridden by
\* its own, and writes nothing before the platform has answered; when the
\* platform update succeeds the record of the id gets that creation
\* timestamp, the time of the write as last-update timestamp and those
\* options, the other records staying as they are; when it fails the
\* registry is unchanged.
C34_UpdateMergesIntoStored ==
  [][/\ (/\ Arrives("UPDATE_NOTIFICATION")
         /\ Has(activeNotifications, requests'[Len(requests')].req.id))
        => LET q == requests'[Len(requests')].req
               stored == Get(activeNotifications, q.id)
           IN /\ activeNotifications' = activeNotifications
              /\ \E c \in NewCalls :
                   /\ calls'[c].fn = "update"
                   /\ calls'[c].id = q.id
                   /\ calls'[c].createdAt = stored.createdAt
                   /\ DOMAIN calls'[c].opts = (DOMAIN stored.options) \cup (DOMAIN q.options)
                   /\ \A k \in DOMAIN q.options : calls'[c].opts[k] = q.options[k]
                   /\ \A k \in (DOMAIN stored.options) \ (DOMAIN q.options) :
                        calls'[c].opts[k] = stored.options[k]
     /\ \A cid \in DOMAIN calls :
          UpdateSettles(cid)
          => IF Head(inbox["notifications"]).ok
             THEN /\ Has(activeNotifications', calls[cid].id)
                  /\ Get(activeNotifications', calls[cid].id).createdAt = calls[cid].createdAt
                  /\ Get(activeNotifications', calls[cid].id).updatedAt = now
                  /\ Get(activeNotifications', calls[cid].id).options = calls[cid].opts
                  /\ \A id \in (Ids(activeNotifications) \cup Ids(activeNotifications'))
                                \ {calls[cid].id} :
                       /\ Has(activeNotifications, id) /\ Has(activeNotifications', id)
                       /\ Get(activeNotifications', id) = Get(activeNotifications, id)
             ELSE activeNotifications' = activeNotifications]_vars

\* a record created at one time has been updated at a later time: it has
\* the title of the update beside the clickAction it was shown with
C34_Witness ==
  /\ Has(activeNotifications, "n1")
  /\ Get(activeNotifications, "n1").createdAt = 0
  /\ Get(activeNotifications, "n1").updatedAt = 1
  /\ Get(activeNotifications, "n1").options = Merge(Merge(DefaultOptions, ClickBag), TitleBag)

\* the request r has a reply, and one sent by its handler when it is a
\* SCHEDULE_TASK request
AnsweredRequest(r) ==
  /\ Len(requests) >= r
  /\ Len(requests[r].replies) >= 1
  /\ requests[r].req.action = "SCHEDULE_TASK"
     => \E i \in 1..Len(requests[r].replies) : requests[r].replies[i].by = 1

\* C35: every platform call being answered, every request that has arrived
\* has a reply in the end, and every SCHEDULE_TASK request the reply of its
\* handler, whatever the action of the task and whatever storage holds.
C35_EveryRequestAnswered ==
  \A r \in 1..MaxSchedRequests : (Len(requests) >= r) ~> AnsweredRequest(r)

\* the executions of the action of the task id that are suspended on an
\* asynchronous operation: immediate executions and timer firings
InFlight(id) ==
  {c \in DOMAIN calls :
     /\ calls[c].fn \in {"schedule", "fire"}
     /\ calls[c].id = id
     /\ calls[c].pc \in {"syncGet", "syncSet", "cleanupGet", "cleanupRemove", "refreshGet"}}

\* C36: for one task id at most one execution of its action is in flight
\* at any time.
C36_OneExecutionPerId ==
  \A c \in DOMAIN calls : Cardinality(InFlight(calls[c].id)) <= 1

\* the step is the continuation of an ensureOffscreenDocument that found no
\* document: it invokes chrome.offscreen.createDocument
CreateInvoked ==
  /\ HeadIs("runtime", "reply", {"ensureCtx"})
  /\ ~Head(inbox["runtime"]).ok
  /\ Head(inbox["runtime"]).cid \in DOMAIN calls'
  /\ calls'[Head(inbox["runtime"]).cid].pc = "ensureCreate"

\* C37: chrome.offscreen.createDocument is invoked only while no offscreen
\* document exists and no other creation is in flight, and offscreenCreated
\* is true only when an offscreen document exists.
C37_OneOffscreenCreation ==
  /\ [](offscreenCreated => offscreenDoc)
  /\ [][CreateInvoked
        => /\ ~offscreenDoc
           /\ \A c \in DOMAIN calls : calls[c].pc # "ensureCreate"]_vars


\* the activations the step starts at a program position
Started(pc) == {c \in (DOMAIN calls') \ (DOMAIN calls) : calls'[c].pc = pc}

\* replies of the third listener's handler to request r
HandlerReplies(r) ==
  Cardinality({i \in 1..Len(requests[r].replies) : requests[r].replies[i].by = 3})

\* C38: a logoutUser request whose storage removal succeeds leaves
\* authToken, userData and sessionToken absent from storage, starts a
\* userLoggedOut broadcast to every open tab and its handler replies success
\* exactly once; when the removal fails the handler replies
\* {success: false, error} exactly once and no broadcast is sent.
C38_LogoutUser ==
  /\ [](\A r \in 1..Len(requests) :
          (~requests[r].req.null /\ requests[r].req.action = "logoutUser")
          => HandlerReplies(r) <= 1)
  /\ [][\A c \in Started("logoutRemove") :
          LET m == inbox'["storage"][Len(inbox'["storage"])] IN
            /\ m.cid = c
            /\ storage' = IF m.ok THEN Without(storage, LogoutKeys) ELSE storage
            /\ m.ok => \A k \in LogoutKeys : k \notin DOMAIN storage']_vars
  /\ [][Answered("storage", "logoutRemove") =>
          LET m == Head(inbox["storage"])
              r == calls[m.cid].req
          IN /\ requests' = [requests EXCEPT ![r].replies =
                   Append(@, ReplyRec(3, IF m.ok THEN "yes" ELSE "no",
                                      IF m.ok THEN "" ELSE "lastError.message",
                                      FALSE))]
             /\ HandlerReplies(r) = 0
             /\ storage' = storage
             /\ IF m.ok
                THEN /\ Cardinality(Started("query")) = 1
                     /\ \A c \in Started("query") : calls'[c].id = "userLoggedOut"
                     /\ DOMAIN calls' = ((DOMAIN calls) \ {m.cid}) \cup Started("query")
                ELSE /\ DOMAIN calls' = (DOMAIN calls) \ {m.cid}
                     /\ inbox'["tabs"] = inbox["tabs"]]_vars
  /\ [][(/\ HeadIs("tabs", "reply", {"query"})
         /\ calls[Head(inbox["tabs"]).cid].id = "userLoggedOut"
         /\ Head(inbox["tabs"]).cid \notin DOMAIN calls')
        => /\ \A c \in Started("sent") : calls'[c].id = "userLoggedOut"
           /\ \A i \in 1..Len(tabs) :
                Cardinality({c \in Started("sent") : calls'[c].idx = i}) = 1]_vars

\* a logoutUser request answered with success by its handler: the keys are
\* gone, the theme is kept, and the message went out to both tabs
C38_Witness ==
  /\ \E r \in 1..Len(requests) :
       /\ ~requests[r].req.null /\ requests[r].req.action = "logoutUser"
       /\ \E i \in 1..Len(requests[r].replies) :
            requests[r].replies[i].by = 3 /\ requests[r].replies[i].success = "yes"
  /\ \A k \in LogoutKeys : k \notin DOMAIN storage
  /\ "theme" \in DOMAIN storage
  /\ Cardinality({c \in DOMAIN calls : calls[c].pc = "sent" /\ calls[c].id = "userLoggedOut"}) = 2

\* a logoutUser request whose removal failed: the handler said so and the
\* keys are still stored
C38_FailureWitness ==
  /\ \E r \in 1..Len(requests) :
       /\ ~requests[r].req.null /\ requests[r].req.action = "logoutUser"
       /\ \E i \in 1..Len(requests[r].replies) :
            requests[r].replies[i].by = 3 /\ requests[r].replies[i].success = "no"
  /\ LogoutKeys \subseteq DOMAIN storage


\* the value the session check read for a key, and whether it read one
CheckRead(k) == Head(inbox["storage"]).val[k]

CheckReadHas(k) == k \in DOMAIN Head(inbox["storage"]).val

C39_KeptWitness ==
  /\ firings = 1
  /\ \A c \in DOMAIN calls : calls[c].pc # "sessionGet"
  /\ now < SessionExpiry
  /\ Len(requests) = 0
  /\ SessionKeys \subseteq DOMAIN storage


RetryDone == retry.pc \in {"returned", "thrown"}

Failures == {i \in 1..Len(retry.outcomes) : ~retry.outcomes[i].ok}

\* C40: retryWithBackoff(fn, maxAttempts, delay) with maxAttempts >= 1 calls
\* fn at most maxAttempts times, stops at the first call that succeeds and
\* returns its value, waits delay * 2^(k-1) after the k-th failed attempt
\* before the next one, and after maxAttempts failures rejects with the
\* error of the last attempt without waiting again; it always terminates
\* when fn does.
C40_RetryWithBackoff ==
  /\ []((retry.pc # "none" /\ retry.maxAttempts >= 1) =>
          /\ retry.fnCalls <= retry.maxAttempts
          /\ retry.fnCalls = Len(retry.outcomes) + (IF retry.pc = "callFn" THEN 1 ELSE 0)
          /\ \A i \in 1..Len(retry.outcomes) :
               retry.outcomes[i].ok
               => /\ i = Len(retry.outcomes)
                  /\ retry.pc = "returned"
                  /\ retry.result = retry.outcomes[i]
          /\ retry.pc = "returned" => retry.outcomes[Len(retry.outcomes)].ok
          /\ \A k \in 1..Len(retry.waits) : retry.waits[k] = retry.delay * 2^(k - 1)
          /\ Len(retry.waits) =
               IF Cardinality(Failures) = retry.maxAttempts
               THEN retry.maxAttempts - 1
               ELSE Cardinality(Failures)
          /\ retry.pc = "wait" => Len(retry.waits) = Len(retry.outcomes)
          /\ retry.pc = "callFn" => Len(retry.waits) = Len(retry.outcomes)
          /\ Cardinality(Failures) = retry.maxAttempts
             => /\ retry.pc = "thrown"
                /\ retry.result = retry.outcomes[retry.maxAttempts]
          /\ retry.pc = "thrown" => Cardinality(Failures) = retry.maxAttempts)
  /\ [][RetryDone => retry' = retry]_vars
  /\ (retry.pc # "none") ~> RetryDone

\* three attempts have failed: two waits, the second twice the first, and
\* the error of the third attempt is thrown
C40_Witness ==
  /\ retry.pc = "thrown"
  /\ retry.maxAttempts = 3
  /\ retry.delay = DefaultDelay
  /\ retry.fnCalls = 3
  /\ retry.waits = <<DefaultDelay, 2 * DefaultDelay>>
  /\ retry.outcomes = <<Rejected("e1"), Rejected("e1"), Rejected("e2")>>
  /\ retry.result = Rejected("e2")

\* the second attempt succeeds: one wait, no third call
C40_SuccessWitness ==
  /\ retry.pc = "returned"
  /\ retry.maxAttempts = 3
  /\ retry.fnCalls = 2
  /\ Len(retry.waits) = 1
  /\ retry.result = Resolved("v2")

====
